---- MODULE Spec2Model ----
(***************************************************************************)
(* State-machine model of the generation pipeline of SHMUP_OS:             *)
(*   - services/llm_service.py   : text cache + generate_game_json         *)
(*   - services/image_service.py : two-tier image cache, provider failover *)
(* Strings are modelled as short sequences or tagged records; the hash of  *)
(* a cache key string is assumed collision-free and is modelled by the     *)
(* key string itself.                                                      *)
(***************************************************************************)
EXTENDS Integers, Sequences, FiniteSets, TLC

\* ------------------------------------------------------------------------
\* Bounds of the model
\* ------------------------------------------------------------------------
MaxRetriesBound == 3
MaxDocKeys == 2
MaxBlob == 1
MaxKeyStrLen == 2
MaxSpriteCalls == 3
MaxItems == 2
MaxInvalid == 1
MaxPerStage == 2
MaxUuids == 1
MaxPlayCalls == 3
MaxCampaigns == 1
MaxSessions == 2

\* ------------------------------------------------------------------------
\* Text generation: llm_service.py
\* ------------------------------------------------------------------------
VARIABLES
    llm_files,   \* CACHE_DIR/<key>.json : key -> file content
    t_pc,        \* position of the generate_game_json call in flight
    t_args,      \* its arguments
    attempt,     \* loop variable of "for attempt in range(max_retries)"
    t_result,    \* what the last call returned (or that it raised)
    t_trace,     \* observation: completion calls and sleeps of the call
    t_prior,     \* observation: what the call before this one returned, when it
                 \* was a successful use_cache=True call for the same prompt
    t_prior_difficulty  \* observation: the difficulty that call was made with

\* Image generation: image_service.py
VARIABLES
    IMAGE_CACHE,   \* the in-memory tier: cache key -> data URI
    image_files,   \* CACHE_DIR/<image_type>/<key>.png : path -> file bytes
    i_pc,          \* position of the generate_image call in flight
    i_args,        \* its arguments
    error,         \* local "error" of generate_image (last provider error)
    i_result,      \* what the last generate_image call returned
    i_trace,       \* observation: tier reads and provider calls of the call
    i_snap,        \* observation: the key's two tiers when the call was entered,
                   \* and what the call before it returned for the same key
    last_clear     \* observation: how clear_cache ended, no generate_image since

\* Cache keys of two requests: get_cache_key applied to two argument triples
VARIABLES
    k_pc,    \* "start" until the two keys were computed, then "done"
    k_in,    \* the two (prompt, size, image_type) triples
    k_out    \* the two keys

key_vars == <<k_pc, k_in, k_out>>

\* Sprite wrappers of image_service.py (generate_enemy_sprite,
\* generate_boss_sprite, generate_player_sprite)
VARIABLES
    s_pc,      \* "idle", or "generating" while the wrapper's generate_image runs
    s_args,    \* which wrapper, and its description
    s_result,  \* what the last wrapper call returned
    s_obs,     \* observation: what the call found, generated and stored
    s_calls    \* number of wrapper calls made so far (bounded by MaxSpriteCalls)

sprite_vars == <<s_pc, s_args, s_result, s_obs, s_calls>>

\* validate_game_data applied to a document (utils/validation.py)
VARIABLES
    v_pc,      \* "start" until a document was validated, then "done"
    v_doc,     \* the document
    v_result   \* what validate_game_data returned, or that it raised

valid_vars == <<v_pc, v_doc, v_result>>

\* The /generate-game endpoint (routes/game.py)
VARIABLES
    r_pc,        \* "idle", or "generating" while generate_game_json runs
    r_req,       \* the request being handled
    r_response,  \* the response of the last request
    r_calls,     \* number of generate_game_json calls made for the request
    r_doc,       \* the content of the generated document handed to validation
    r_known,     \* the JSON object with keys read last, and its content
    r_prior      \* the validation failure the request before got for this prompt

route_vars == <<r_pc, r_req, r_response, r_calls, r_doc, r_known, r_prior>>

\* A helper function applied to an input: the serialization round trip of
\* GameData, validate_partial_game_data, get_validation_summary
\* (utils/validation.py) and remove_solid_background on a raster
\* (utils/image_processing.py)
VARIABLES
    fn_pc,   \* "start" until the function was applied, then "done"
    fn_in,   \* its input
    fn_out   \* what it returned, or that it raised

fn_vars == <<fn_pc, fn_in, fn_out>>

\* The /patch-story endpoint (routes/shared.py)
VARIABLES
    b_pc,        \* "idle", or "calling" while litellm.completion runs
    b_req,       \* the request being handled
    b_response,  \* the response of the last request
    b_trace      \* observation: provider and cache operations of the request

bridge_vars == <<b_pc, b_req, b_response, b_trace>>
\* The shared pool of completed stages (database.py) and /get-next-stage
VARIABLES
    completed_stages,  \* the rows of table completed_stages
    uuids_drawn,       \* how many uuid4() values save_completed_stage has drawn
    g_query,           \* arguments of the last get_random_stage call
    g_stage,           \* what that call returned
    p_pc,              \* per request: position inside increment_stage_plays
    p_args,            \* per request: stage_id, score and the caller
    p_row,             \* per request: the row its SELECT fetched
    p_calls,           \* increment_stage_plays calls begun so far
    n_response,        \* per request: status of the last /get-next-stage answer
    plays_done,        \* observation: per stage, completed increment calls that
                       \* found the stage, since the stage's row was last saved
    disturbed          \* observation: per stage, the row was saved while an
                       \* increment call for it was in flight

pool_vars == <<completed_stages, uuids_drawn, g_query, g_stage, p_pc, p_args,
               p_row, p_calls, n_response, plays_done, disturbed>>

\* The /save-game endpoint (routes/shared.py) over tables campaigns and
\* game_sessions (database.py)
VARIABLES
    campaigns,      \* the rows of table campaigns
    game_sessions,  \* the rows of table game_sessions, in insertion order
    v_req,          \* the last /save-game request
    v_response,     \* its response
    v_trace         \* observation: the database writes of that request, in order

save_vars == <<campaigns, game_sessions, v_req, v_response, v_trace>>

\* Two generate_image calls running concurrently for one cache key
VARIABLES
    c_pc,      \* per caller: position inside generate_image
    c_image,   \* per caller: the image its provider returned
    c_result,  \* per caller: what generate_image returned
    c_calls    \* observation: per caller, the lookups, provider calls and writes made

conc_vars == <<c_pc, c_image, c_result, c_calls>>

other_vars == <<save_vars, conc_vars>>

more_vars == <<fn_vars, bridge_vars, pool_vars, other_vars>>
aux_vars == <<key_vars, sprite_vars, valid_vars, route_vars, more_vars>>

image_vars == <<IMAGE_CACHE, image_files, i_pc, i_args, error, i_result,
                i_trace, i_snap, last_clear>>

UserPrompts == {"p1", "p2"}
Difficulties == {"easy", "hard"}
PROMPT_VERSION == "v4"

\* Values json.loads / json.load can return.  An object is identified by its
\* number of keys; JSON null is Python's None.
JsonNull == [t |-> "null", n |-> 0]
JsonObject(n) == [t |-> "object", n |-> n]
JsonValues == {JsonNull} \cup {JsonObject(n) : n \in 0..MaxDocKeys}

\* What the completion model can send back in JSON-object mode: {} or a
\* document with keys.
ModelDocuments == {JsonObject(n) : n \in 0..MaxDocKeys}

\* Python truthiness of a parsed JSON value (None and {} are falsy).
Truthy(v) == v.t = "object" /\ v.n > 0

\* key_str = f"{PROMPT_VERSION}:{user_prompt}"; difficulty is not used.
get_llm_cache_key(user_prompt, difficulty) == <<PROMPT_VERSION, ":", user_prompt>>

LlmKeys == {get_llm_cache_key(p, d) : p \in UserPrompts, d \in Difficulties}

\* Content of a cache file: absent, the text json.dump wrote for a document,
\* or a truncated text left by a write that failed half way.
NoFile == [form |-> "absent", doc |-> JsonNull]
TruncatedFile == [form |-> "truncated", doc |-> JsonNull]
JsonFile(doc) == [form |-> "json", doc |-> doc]
LlmFileContents == {NoFile, TruncatedFile} \cup {JsonFile(d) : d \in JsonValues}

\* Outcomes of the filesystem when a cache file is read or written.
ReadOutcomes == {"ok", "stat_error", "read_error"}
WriteOutcomes == {"ok", "open_error", "write_error"}

\* load_from_llm_cache: exists() is outside the try block, so an OSError of
\* stat that pathlib does not ignore propagates; open/json.load errors are
\* caught and give None.
load_from_llm_cache(files, cache_key, fsr) ==
    IF fsr = "stat_error" THEN [raised |-> TRUE, value |-> JsonNull]
    ELSE IF files[cache_key].form = "absent" THEN [raised |-> FALSE, value |-> JsonNull]
    ELSE IF fsr = "read_error" THEN [raised |-> FALSE, value |-> JsonNull]
    ELSE IF files[cache_key].form = "truncated" THEN [raised |-> FALSE, value |-> JsonNull]
    ELSE [raised |-> FALSE, value |-> files[cache_key].doc]

\* save_to_llm_cache: every error is caught; a failed open leaves the file as
\* it was, a failed write leaves a truncated file.
save_to_llm_cache(files, cache_key, game_data, fsw) ==
    IF fsw = "ok" THEN [files EXCEPT ![cache_key] = JsonFile(game_data)]
    ELSE IF fsw = "open_error" THEN files
    ELSE [files EXCEPT ![cache_key] = TruncatedFile]

\* "if cached_data:" -- the cache hit test of generate_game_json.
llm_cache_hit(cached_data) == Truthy(cached_data)

\* Mutant of retry_allowed: gives up one attempt early.
retry_allowed_one_short(att, max_retries) == att < max_retries - 2

\* "if attempt < max_retries - 1" -- retry (sleep) or give up.
retry_allowed(att, max_retries) == att < max_retries - 1

\* Mutant of wait_time: linear instead of exponential backoff.
wait_time_linear(att) == 2 * att

\* wait_time = 2 ** attempt
wait_time(att) == 2 ^ att

\* Outcomes of one completion() call followed by json.loads: a parsed
\* document, a JSONDecodeError, or any other exception.
CompletionOutcomes ==
    [kind : {"json"}, doc : ModelDocuments, detail : {"none"}]
    \cup {[kind |-> "parse_error", doc |-> JsonNull, detail |-> "Expecting value"],
          [kind |-> "llm_error", doc |-> JsonNull, detail |-> "Timeout"]}

\* error_msg of the two except branches
error_msg(o) ==
    IF o.kind = "parse_error" THEN <<"JSON parsing error: ", o.detail>>
    ELSE <<"LLM error: ", o.detail>>

NoError == <<>>
NoResult == [status |-> "none", success |-> FALSE, game_data |-> JsonNull, error |-> NoError]
Returned(success, game_data, err) ==
    [status |-> "returned", success |-> success, game_data |-> game_data, error |-> err]
Raised == [status |-> "raised", success |-> FALSE, game_data |-> JsonNull, error |-> NoError]

NotServed == [t |-> "unserved", n |-> 0]

TextArgs == [user_prompt : UserPrompts, difficulty : Difficulties,
             max_retries : 0..MaxRetriesBound, use_cache : BOOLEAN]
NoArgs == [user_prompt |-> "p1", difficulty |-> "easy", max_retries |-> 0, use_cache |-> FALSE]

\* Events of a call: fs is the outcome of the filesystem operation the step
\* performed ("ok" when it performed none or it succeeded).
CallEvent(o, fs) ==
    [ev |-> "call", ok |-> (o.kind = "json"), kind |-> o.kind, detail |-> o.detail,
     doc |-> o.doc, secs |-> 0, fs |-> fs]
SleepEvent(s) ==
    [ev |-> "sleep", ok |-> FALSE, kind |-> "none", detail |-> "none",
     doc |-> JsonNull, secs |-> s, fs |-> "ok"]
LookupEvent(hit, fs) ==
    [ev |-> "lookup", ok |-> hit, kind |-> "none", detail |-> "none",
     doc |-> JsonNull, secs |-> 0, fs |-> fs]

text_vars == <<llm_files, t_pc, t_args, attempt, t_result, t_trace, t_prior,
               t_prior_difficulty>>

TextInit ==
    /\ llm_files = [k \in LlmKeys |-> NoFile]
    /\ t_pc = "idle"
    /\ t_args = NoArgs
    /\ attempt = 0
    /\ t_result = NoResult
    /\ t_trace = <<>>
    /\ t_prior = NotServed
    /\ t_prior_difficulty = NoArgs.difficulty

\* Record what a finished call returned.
TextReturn(res) ==
    /\ t_pc' = "idle"
    /\ t_result' = res

\* No filesystem operation of the call failed.
FaultFree(trace) == \A i \in DOMAIN trace : trace[i].fs = "ok"

\* generate_game_json is entered: cache_key is computed, nothing else yet.
generate_game_json_begin(a) ==
    /\ t_pc = "idle" /\ i_pc = "idle"
    /\ t_args' = a
    /\ t_pc' = IF a.use_cache THEN "check_cache" ELSE "loop"
    /\ attempt' = 0
    /\ t_result' = NoResult
    /\ t_trace' = <<>>
    /\ t_prior' = IF /\ t_result.status = "returned" /\ t_result.success
                      /\ t_args.use_cache /\ t_args.user_prompt = a.user_prompt
                      /\ FaultFree(t_trace)
                   THEN t_result.game_data
                   ELSE NotServed
    /\ t_prior_difficulty' = IF t_prior' # NotServed THEN t_args.difficulty
                              ELSE NoArgs.difficulty
    /\ UNCHANGED llm_files

\* A caller other than the endpoint (tests, scripts) calls generate_game_json.
generate_game_json_enter(a) ==
    /\ r_pc = "idle"
    /\ generate_game_json_begin(a)
    /\ UNCHANGED <<image_vars, aux_vars>>

\* "Check cache first": load_from_llm_cache and the hit test.
generate_game_json_check_cache(fsr) ==
    /\ t_pc = "check_cache"
    /\ LET cache_key == get_llm_cache_key(t_args.user_prompt, t_args.difficulty)
           loaded == load_from_llm_cache(llm_files, cache_key, fsr)
           fs == IF fsr = "read_error" /\ llm_files[cache_key].form = "absent"
                 THEN "ok" ELSE fsr
       IN  /\ t_trace' = Append(t_trace,
                   LookupEvent(~loaded.raised /\ llm_cache_hit(loaded.value), fs))
           /\ IF loaded.raised
              THEN TextReturn(Raised)
              ELSE IF llm_cache_hit(loaded.value)
                   THEN TextReturn(Returned(TRUE, loaded.value, NoError))
                   ELSE /\ t_pc' = "loop"
                        /\ UNCHANGED t_result
    /\ UNCHANGED <<llm_files, t_args, attempt, t_prior, t_prior_difficulty>>
    /\ UNCHANGED <<image_vars, aux_vars>>

\* One iteration of the retry loop: completion(), json.loads, then either
\* save-and-return, sleep-and-retry, or return the failure.
generate_game_json_attempt(o, fsw) ==
    /\ t_pc = "loop"
    /\ attempt < t_args.max_retries
    /\ IF o.kind = "json"
       THEN /\ IF t_args.use_cache
               THEN /\ llm_files' = save_to_llm_cache(llm_files,
                            get_llm_cache_key(t_args.user_prompt, t_args.difficulty), o.doc, fsw)
                    /\ t_trace' = Append(t_trace, CallEvent(o, fsw))
               ELSE /\ t_trace' = Append(t_trace, CallEvent(o, "ok"))
                    /\ UNCHANGED llm_files
            /\ TextReturn(Returned(TRUE, o.doc, NoError))
            /\ UNCHANGED attempt
       ELSE IF retry_allowed(attempt, t_args.max_retries)
            THEN /\ t_trace' = t_trace \o <<CallEvent(o, "ok"), SleepEvent(wait_time(attempt))>>
                 /\ attempt' = attempt + 1
                 /\ UNCHANGED <<llm_files, t_pc, t_result>>
            ELSE /\ t_trace' = Append(t_trace, CallEvent(o, "ok"))
                 /\ TextReturn(Returned(FALSE, JsonNull, error_msg(o)))
                 /\ UNCHANGED <<llm_files, attempt>>
    /\ UNCHANGED <<t_args, t_prior, t_prior_difficulty>>
    /\ UNCHANGED <<image_vars, aux_vars>>

\* The for loop ends without an iteration having returned (max_retries = 0).
generate_game_json_exhausted ==
    /\ t_pc = "loop"
    /\ ~(attempt < t_args.max_retries)
    /\ TextReturn(Returned(FALSE, JsonNull, <<"Max retries exceeded">>))
    /\ UNCHANGED <<llm_files, t_args, attempt, t_trace, t_prior, t_prior_difficulty>>
    /\ UNCHANGED <<image_vars, aux_vars>>

\* ------------------------------------------------------------------------
\* Image generation: image_service.py
\* ------------------------------------------------------------------------
ImagePrompts == {<<"a">>, <<"b">>}
ImageSizes == {<<"1024x1024">>}
ImageTypes == {<<"enemy">>}

\* key_str = f"{prompt}|{size}|{model}"
get_cache_key(prompt, size, model) == prompt \o <<"|">> \o size \o <<"|">> \o model

\* CACHE_DIR / image_type / f"{cache_key}.png"
file_path(cache_key, image_type) == <<image_type, cache_key>>

ImageArgs == [prompt : ImagePrompts, size : ImageSizes, use_cache : BOOLEAN,
              image_type : ImageTypes]
NoImageArgs == [prompt |-> <<"a">>, size |-> <<"1024x1024">>, use_cache |-> FALSE,
                image_type |-> <<"enemy">>]
ImageKeys == {get_cache_key(a.prompt, a.size, a.image_type) : a \in ImageArgs}
ImagePaths == {file_path(get_cache_key(a.prompt, a.size, a.image_type), a.image_type) :
                   a \in ImageArgs}

\* Image bytes are short sequences of byte values; the providers produce the
\* one-byte images <<1>> .. <<MaxBlob>>.  JunkByte stands for the bytes that
\* b64decode yields for the letters of a "data:image/jpeg;base64," prefix.
\* The three sprite wrappers differ in their image_type and prompt text only.
SpriteKinds == {<<"enemy">>, <<"boss">>, <<"player">>}
SpriteDescriptions == {<<"d">>}
SpriteSize == <<"1024x1024">>

\* full_prompt = f"""{description}, side view sprite facing ..."""
full_prompt(kind, description) ==
    description \o <<", side view sprite, ">> \o kind \o <<" game asset, green background">>

\* The suffix of the prompt under which the background-removed image is cached
NobgSuffix == <<"|", "nobg", "|", "v6">>

\* cache_key = get_cache_key(full_prompt + "|nobg|v6", "1024x1024", <kind>)
nobg_cache_key(kind, description) ==
    get_cache_key(full_prompt(kind, description) \o NobgSuffix, SpriteSize, kind)

\* The key generate_image computes for the wrapper's call
raw_cache_key(kind, description) ==
    get_cache_key(full_prompt(kind, description), SpriteSize, kind)

SpriteArgs == [kind : SpriteKinds, description : SpriteDescriptions]
NoSpriteArgs == [kind |-> <<"enemy">>, description |-> <<"d">>]

\* Every key and file the model's requests can touch
CacheKeys == ImageKeys \cup {raw_cache_key(a.kind, a.description) : a \in SpriteArgs}
CachePaths ==
    ImagePaths
    \cup {file_path(raw_cache_key(a.kind, a.description), a.kind) : a \in SpriteArgs}
    \cup {file_path(nobg_cache_key(a.kind, a.description), a.kind) : a \in SpriteArgs}

ProviderBlobs == {<<b>> : b \in 1..MaxBlob}
JunkByte == 0
MimeTypes == {"image/png", "image/jpeg"}

\* A data URI "data:<mime>;base64,<base64 of body>"; None is NoImage.
DataUri(mime, body) == [mime |-> mime, body |-> body]
NoImage == [mime |-> "none", body |-> <<>>]

\* A file: absent, or present with its bytes.
AbsentFile == [exists |-> FALSE, bytes |-> <<>>]
PngFile(bytes) == [exists |-> TRUE, bytes |-> bytes]

\* save_image_to_cache: the prefix is stripped only when it is exactly
\* 'data:image/png;base64,'; otherwise the whole string is handed to
\* b64decode, which drops ':', ';' and ',' and decodes the remaining letters
\* of the prefix together with the payload.
decoded_bytes(base64_data) ==
    IF base64_data.mime = "image/png" THEN base64_data.body
    ELSE <<JunkByte>> \o base64_data.body

\* Every error is caught: a failure before or in open() leaves the file as
\* it was, a failed write leaves the file open() truncated.
save_image_to_cache(files, cache_key, base64_data, image_type, fsw) ==
    IF fsw = "ok"
    THEN [files EXCEPT ![file_path(cache_key, image_type)] = PngFile(decoded_bytes(base64_data))]
    ELSE IF fsw = "open_error" THEN files
    ELSE [files EXCEPT ![file_path(cache_key, image_type)] = PngFile(<<>>)]

\* load_image_from_cache: exists(), open and read are all inside the try, so
\* every error gives None; the bytes are re-encoded under the png prefix.
load_image_from_cache(files, cache_key, image_type, fsr) ==
    IF fsr # "ok" THEN NoImage
    ELSE IF ~files[file_path(cache_key, image_type)].exists THEN NoImage
    ELSE DataUri("image/png", files[file_path(cache_key, image_type)].bytes)

\* Result tuples (success, base64_image, error_message); error None is "".
ImageResult(success, image, err) == [success |-> success, image |-> image, error |-> err]

\* parse_gemini_response: a SAFETY/BLOCKED finish reason wins over an image
\* that was found; otherwise the image, or "No image found in response".
parse_gemini_response(response) ==
    IF response.finish_reason = "SAFETY"
    THEN [image |-> NoImage, error |-> "Content blocked by safety filters: SAFETY"]
    ELSE IF response.has_image
         THEN [image |-> DataUri(response.mime_type, response.data), error |-> ""]
         ELSE [image |-> NoImage, error |-> "No image found in response"]

\* What the primary provider's environment can do in one call.
GeminiResponses ==
    [has_image : {TRUE}, mime_type : MimeTypes, data : ProviderBlobs,
     finish_reason : {"STOP", "SAFETY"}]
    \cup [has_image : {FALSE}, mime_type : {"image/png"}, data : {<<>>},
          finish_reason : {"STOP", "SAFETY"}]
GeminiOutcomes ==
    [api_key : {TRUE}, raises : {FALSE}, response : GeminiResponses]
    \cup {[api_key |-> FALSE, raises |-> FALSE,
           response |-> [has_image |-> FALSE, mime_type |-> "image/png", data |-> <<>>,
                         finish_reason |-> "STOP"]],
          [api_key |-> TRUE, raises |-> TRUE,
           response |-> [has_image |-> FALSE, mime_type |-> "image/png", data |-> <<>>,
                         finish_reason |-> "STOP"]]}

generate_image_gemini(env) ==
    IF ~env.api_key
    THEN ImageResult(FALSE, NoImage, "GOOGLE_API_KEY or GEMINI_API_KEY not configured")
    ELSE IF env.raises
    THEN ImageResult(FALSE, NoImage, "Gemini error: ConnectionError")
    ELSE LET parsed_response == parse_gemini_response(env.response)
         IN  IF parsed_response.image # NoImage
             THEN ImageResult(TRUE, parsed_response.image, "")
             ELSE ImageResult(FALSE, NoImage, parsed_response.error)

\* What the secondary provider's environment can do in one call.
OpenAIOutcomes ==
    [kind : {"image"}, content : ProviderBlobs]
    \cup [kind : {"raises", "none_url"}, content : {<<>>}]

generate_image_openai(o) ==
    IF o.kind = "raises" THEN ImageResult(FALSE, NoImage, "OpenAI error: Timeout")
    ELSE IF o.kind = "none_url"
    THEN ImageResult(FALSE, NoImage, "Model returned None as image URL")
    ELSE ImageResult(TRUE, DataUri("image/png", o.content), "")

\* Mutant of provider_succeeded: tests the error message instead of the image
\* ("if success and error:"), which is empty on every success.
provider_succeeded_tests_error(res) == res.success /\ res.error # ""

\* "if success and image:" -- a provider result that is returned and cached.
provider_succeeded(res) == res.success /\ res.image # NoImage

\* The message of the final "return False, None, ...": the local "error" has
\* been overwritten by the secondary provider's result.
both_failed_message(primary_error, secondary_error) ==
    <<"Both Gemini and OpenAI failed. Last error: ", secondary_error>>

\* Mutant of cache_lookup: the memory tier is read first and the file only on
\* a memory miss.
cache_lookup_memory_first(mem, files, cache_key, image_type, fsr) ==
    LET cached_image == load_image_from_cache(files, cache_key, image_type, fsr)
    IN  IF mem[cache_key] # NoImage
        THEN [hit |-> TRUE, image |-> mem[cache_key], tier |-> "memory",
              reads |-> <<"memory">>]
        ELSE IF cached_image # NoImage
             THEN [hit |-> TRUE, image |-> cached_image, tier |-> "filesystem",
                   reads |-> <<"memory", "filesystem">>]
             ELSE [hit |-> FALSE, image |-> NoImage, tier |-> "none",
                   reads |-> <<"memory", "filesystem">>]

\* The cache lookup of generate_image: the filesystem tier is read first and
\* the memory tier only when the file gave nothing.
cache_lookup(mem, files, cache_key, image_type, fsr) ==
    LET cached_image == load_image_from_cache(files, cache_key, image_type, fsr)
    IN  IF cached_image # NoImage
        THEN [hit |-> TRUE, image |-> cached_image, tier |-> "filesystem",
              reads |-> <<"filesystem">>]
        ELSE IF mem[cache_key] # NoImage
             THEN [hit |-> TRUE, image |-> mem[cache_key], tier |-> "memory",
                   reads |-> <<"filesystem", "memory">>]
             ELSE [hit |-> FALSE, image |-> NoImage, tier |-> "none",
                   reads |-> <<"filesystem", "memory">>]

\* "if use_cache and cache_key:" followed by both writes of a provider result.
cache_store(mem, cache_key, image) == [mem EXCEPT ![cache_key] = image]

\* Events of a call: fs is the outcome of the filesystem operation the step
\* performed ("ok" when it performed none or it succeeded).
TierEvent(tier, image, fs) ==
    [ev |-> "read", who |-> tier, ok |-> (image # NoImage), image |-> image,
     error |-> "", fs |-> fs]
ProviderEvent(who, res, fs) ==
    [ev |-> "provider", who |-> who, ok |-> res.success, image |-> res.image,
     error |-> res.error, fs |-> fs]

NoImageResult == [status |-> "none", success |-> FALSE, image |-> NoImage, error |-> <<>>]
ImageReturned(success, image, err) ==
    [status |-> "returned", success |-> success, image |-> image, error |-> err]
NoSnap == [mem |-> NoImage, file |-> AbsentFile, prior |-> NoImage, after_clear |-> "none"]

ImageInit ==
    /\ IMAGE_CACHE = [k \in CacheKeys |-> NoImage]
    /\ image_files = [f \in CachePaths |-> AbsentFile]
    /\ i_pc = "idle"
    /\ i_args = NoImageArgs
    /\ error = ""
    /\ i_result = NoImageResult
    /\ i_trace = <<>>
    /\ i_snap = NoSnap
    /\ last_clear = "none"

CurrentKey == get_cache_key(i_args.prompt, i_args.size, i_args.image_type)

\* Record what a finished generate_image call returned.
ImageReturn(res) ==
    /\ i_pc' = "idle"
    /\ i_result' = res

\* generate_image entered, were the two-tier lookup made whatever use_cache is
generate_image_begin_looking_up(a) ==
    /\ i_pc = "idle" /\ t_pc = "idle"
    /\ i_args' = a
    /\ i_pc' = "check_cache"
    /\ error' = ""
    /\ i_result' = NoImageResult
    /\ i_trace' = <<>>
    /\ i_snap' = NoSnap
    /\ last_clear' = "none"
    /\ UNCHANGED <<IMAGE_CACHE, image_files>>

\* generate_image is entered: cache_key is computed.
generate_image_begin(a) ==
    /\ i_pc = "idle" /\ t_pc = "idle"
    /\ i_args' = a
    /\ i_pc' = IF a.use_cache THEN "check_cache" ELSE "primary"
    /\ error' = ""
    /\ i_result' = NoImageResult
    /\ i_trace' = <<>>
    /\ LET k == get_cache_key(a.prompt, a.size, a.image_type)
       IN  i_snap' = [mem |-> IMAGE_CACHE[k],
                      file |-> image_files[file_path(k, a.image_type)],
                      prior |-> IF /\ i_result.success /\ i_args.use_cache
                                   /\ CurrentKey = k /\ last_clear = "none"
                                   /\ FaultFree(i_trace)
                                THEN i_result.image
                                ELSE NoImage,
                      after_clear |-> last_clear]
    /\ last_clear' = "none"
    /\ UNCHANGED <<IMAGE_CACHE, image_files>>

\* A request calls generate_image directly.
generate_image_enter(a) ==
    /\ s_pc = "idle"
    /\ generate_image_begin(a)
    /\ UNCHANGED <<text_vars, aux_vars>>

\* Lines 319-336: the two-tier lookup.
generate_image_check_cache(fsr) ==
    /\ i_pc = "check_cache"
    /\ LET found == cache_lookup(IMAGE_CACHE, image_files, CurrentKey, i_args.image_type, fsr)
           fs == IF image_files[file_path(CurrentKey, i_args.image_type)].exists
                 THEN fsr ELSE "ok"
       IN  /\ i_trace' = i_trace \o
                 [i \in 1..Len(found.reads) |->
                     TierEvent(found.reads[i],
                               IF found.reads[i] = found.tier THEN found.image ELSE NoImage,
                               IF found.reads[i] = "filesystem" THEN fs ELSE "ok")]
           /\ IF found.hit
              THEN /\ IMAGE_CACHE' = IF found.tier = "filesystem"
                                     THEN cache_store(IMAGE_CACHE, CurrentKey, found.image)
                                     ELSE IMAGE_CACHE
                   /\ ImageReturn(ImageReturned(TRUE, found.image, <<>>))
              ELSE /\ i_pc' = "primary"
                   /\ UNCHANGED <<IMAGE_CACHE, i_result>>
    /\ UNCHANGED <<image_files, i_args, error, i_snap, last_clear>>
    /\ UNCHANGED <<text_vars, aux_vars>>

\* Store a provider result in both tiers when use_cache, then return it.
ReturnProviderImage(who, res, fsw) ==
    /\ IF i_args.use_cache
       THEN /\ IMAGE_CACHE' = cache_store(IMAGE_CACHE, CurrentKey, res.image)
            /\ image_files' = save_image_to_cache(image_files, CurrentKey, res.image,
                                                  i_args.image_type, fsw)
            /\ i_trace' = Append(i_trace, ProviderEvent(who, res, fsw))
       ELSE /\ i_trace' = Append(i_trace, ProviderEvent(who, res, "ok"))
            /\ UNCHANGED <<IMAGE_CACHE, image_files>>
    /\ ImageReturn(ImageReturned(TRUE, res.image, <<>>))

\* Mutant of generate_image_primary: a failed primary call is retried on the
\* same provider instead of failing over.
generate_image_primary_retrying(env, fsw) ==
    /\ i_pc = "primary"
    /\ LET res == generate_image_gemini(env)
       IN  /\ error' = res.error
           /\ IF provider_succeeded(res)
              THEN ReturnProviderImage("primary", res, fsw)
              ELSE /\ i_pc' = IF Len(i_trace) < 4 THEN "primary" ELSE "secondary"
                   /\ i_trace' = Append(i_trace, ProviderEvent("primary", res, "ok"))
                   /\ UNCHANGED <<IMAGE_CACHE, image_files, i_result>>
    /\ UNCHANGED <<i_args, i_snap, last_clear>>
    /\ UNCHANGED <<text_vars, aux_vars>>

\* Lines 338-347: the primary provider.
generate_image_primary(env, fsw) ==
    /\ i_pc = "primary"
    /\ LET res == generate_image_gemini(env)
       IN  /\ error' = res.error
           /\ IF provider_succeeded(res)
              THEN ReturnProviderImage("primary", res, fsw)
              ELSE /\ i_pc' = "secondary"
                   /\ i_trace' = Append(i_trace, ProviderEvent("primary", res, "ok"))
                   /\ UNCHANGED <<IMAGE_CACHE, image_files, i_result>>
    /\ UNCHANGED <<i_args, i_snap, last_clear>>
    /\ UNCHANGED <<text_vars, aux_vars>>

\* Lines 349-361: the fallback provider and the final failure.
generate_image_secondary(o, fsw) ==
    /\ i_pc = "secondary"
    /\ LET res == generate_image_openai(o)
       IN  /\ error' = res.error
           /\ IF provider_succeeded(res)
              THEN ReturnProviderImage("secondary", res, fsw)
              ELSE /\ ImageReturn(ImageReturned(FALSE, NoImage,
                                               both_failed_message(error, res.error)))
                   /\ i_trace' = Append(i_trace, ProviderEvent("secondary", res, "ok"))
                   /\ UNCHANGED <<IMAGE_CACHE, image_files>>
    /\ UNCHANGED <<i_args, i_snap, last_clear>>
    /\ UNCHANGED <<text_vars, aux_vars>>

\* Mutant of files_after_rmtree: the directory tree is not removed.
files_after_rmtree_noop(files, kept) == files

\* What shutil.rmtree(CACHE_DIR) leaves: nothing, or (when it raises) the
\* files it had not removed yet.
files_after_rmtree(files, kept) ==
    [f \in CachePaths |-> IF f \in kept THEN files[f] ELSE AbsentFile]

\* clear_cache(clear_filesystem): IMAGE_CACHE = {} first, then the rmtree.
\* kept = {} is a complete rmtree; a non-empty kept is an rmtree that raised.
clear_cache(clear_filesystem, kept) ==
    /\ i_pc = "idle" /\ t_pc = "idle"
    /\ IMAGE_CACHE' = [k \in CacheKeys |-> NoImage]
    /\ IF clear_filesystem
       THEN /\ image_files' = files_after_rmtree(image_files, kept)
            /\ last_clear' = IF kept = {} THEN "all" ELSE "raised"
       ELSE /\ kept = {}
            /\ image_files' = image_files
            /\ last_clear' = "memory"
    /\ UNCHANGED <<i_pc, i_args, error, i_result, i_trace, i_snap>>
    /\ UNCHANGED <<text_vars, aux_vars>>

\* get_cache_stats: the entry counts of the two tiers.
get_cache_stats ==
    [memory_cached_images |-> Cardinality({k \in CacheKeys : IMAGE_CACHE[k] # NoImage}),
     filesystem_cached_images |-> Cardinality({f \in CachePaths : image_files[f].exists})]

\* ------------------------------------------------------------------------
\* Sprite wrappers: image_service.py, utils/image_processing.py
\* ------------------------------------------------------------------------
\* First byte of a PNG that remove_solid_background produced (RGBA, with the
\* background's alpha set to 0).
AlphaByte == 255

\* Bytes PIL can open: not empty and not starting with decoded prefix junk.
IsImageBytes(bytes) == Len(bytes) > 0 /\ bytes[1] # JunkByte

\* The outcomes of the processing itself on bytes that are an image
RemovalOutcomes == {"ok", "error"}

\* remove_solid_background: the payload after the comma is decoded whatever
\* the mime type; any exception returns the original string.
remove_solid_background(base64_image, outcome) ==
    IF outcome = "ok" /\ IsImageBytes(base64_image.body)
    THEN DataUri("image/png", <<AlphaByte>> \o base64_image.body)
    ELSE base64_image

\* An image that went through the background removal
IsPostRemoval(image) ==
    image.mime = "image/png" /\ Len(image.body) > 0 /\ image.body[1] = AlphaByte

NoSpriteObs == [hit |-> FALSE, generated |-> FALSE, removal |-> "none",
                raw |-> NoImage, fs |-> "ok"]

SpriteInit ==
    /\ s_pc = "idle"
    /\ s_args = NoSpriteArgs
    /\ s_result = NoImageResult
    /\ s_obs = NoSpriteObs
    /\ s_calls = 0

\* generate_<kind>_sprite up to its call of generate_image: the lookup of the
\* background-removed entry, which is returned when found.
generate_sprite_enter(a, fsr) ==
    /\ s_pc = "idle" /\ i_pc = "idle" /\ t_pc = "idle"
    /\ s_calls < MaxSpriteCalls
    /\ s_calls' = s_calls + 1
    /\ s_args' = a
    /\ LET cache_key == nobg_cache_key(a.kind, a.description)
           cached_nobg == load_image_from_cache(image_files, cache_key, a.kind, fsr)
           fs == IF image_files[file_path(cache_key, a.kind)].exists THEN fsr ELSE "ok"
       IN  IF cached_nobg # NoImage
           THEN /\ s_result' = ImageReturned(TRUE, cached_nobg, <<>>)
                /\ s_obs' = [NoSpriteObs EXCEPT !.hit = TRUE, !.fs = fs]
                /\ UNCHANGED <<s_pc, image_vars>>
           ELSE /\ s_pc' = "generating"
                /\ s_result' = NoImageResult
                /\ s_obs' = [NoSpriteObs EXCEPT !.generated = TRUE, !.fs = fs]
                /\ generate_image_begin([prompt |-> full_prompt(a.kind, a.description),
                                         size |-> SpriteSize, use_cache |-> TRUE,
                                         image_type |-> a.kind])
    /\ UNCHANGED <<text_vars, key_vars, valid_vars, route_vars, more_vars>>

\* generate_<kind>_sprite after generate_image returned: remove the
\* background, store the result under the background-removed key, return.
generate_sprite_finish(outcome, fsw) ==
    /\ s_pc = "generating" /\ i_pc = "idle" /\ i_result.status = "returned"
    /\ s_pc' = "idle"
    /\ IF i_result.success /\ i_result.image # NoImage
       THEN LET base64_image == remove_solid_background(i_result.image, outcome)
                cache_key == nobg_cache_key(s_args.kind, s_args.description)
            IN  /\ image_files' = save_image_to_cache(image_files, cache_key, base64_image,
                                                      s_args.kind, fsw)
                /\ s_result' = ImageReturned(i_result.success, base64_image, i_result.error)
                /\ s_obs' = [s_obs EXCEPT
                       !.removal = IF base64_image = i_result.image THEN "error" ELSE "ok",
                       !.raw = i_result.image,
                       !.fs = IF s_obs.fs = "ok" THEN fsw ELSE s_obs.fs]
       ELSE /\ s_result' = ImageReturned(i_result.success, i_result.image, i_result.error)
            /\ UNCHANGED <<image_files, s_obs>>
    /\ UNCHANGED <<IMAGE_CACHE, i_pc, i_args, error, i_result, i_trace, i_snap, last_clear>>
    /\ UNCHANGED <<s_args, s_calls, text_vars, key_vars, valid_vars, route_vars, more_vars>>

\* ------------------------------------------------------------------------
\* Schema validation: models/game_data.py, utils/validation.py
\* ------------------------------------------------------------------------
\* A document is modelled by its story (with the palette's ansi_fg), its
\* player, its three id-carrying collections and one constrained number per
\* item; every other field is taken to be valid.
ItemIds == {"a", "b"}
LengthSecRange == [ge |-> 60, le |-> 600]
HpRange == [ge |-> 1, le |-> 1000]
CooldownMsRange == [ge |-> 100, le |-> 10000]
LengthSecValues == {30, 240}
HpValues == {24, 10000}
CooldownMsValues == {50, 800}

Stages == [id : ItemIds, num : LengthSecValues]
Enemies == [id : ItemIds, num : HpValues]
BulletPatterns == [id : ItemIds, num : CooldownMsValues]
SeqsUpTo(S, n) == UNION {[1..k -> S] : k \in 0..n}

\* bullet_patterns: the key is omitted, is null, or holds a list
PatternFields ==
    {[form |-> "absent", items |-> <<>>], [form |-> "null", items |-> <<>>]}
    \cup [form : {"list"}, items : SeqsUpTo(BulletPatterns, MaxItems)]

\* Palette colours, as character sequences
HexColor == <<"#", "0", "6", "0", "8", "0", "A">>
NotAHexColor == <<"n", "o", "t", "-", "a", "-", "h", "e", "x", "-", "c", "o", "l", "o", "r">>
BadDigitColor == <<"#", "0", "6", "0", "8", "0", "G">>
Colors == {HexColor, NotAHexColor, BadDigitColor}

\* pattern=r"^#[0-9A-Fa-f]{6}$"
HexDigits == {"0", "1", "2", "3", "4", "5", "6", "7", "8", "9",
              "A", "B", "C", "D", "E", "F", "a", "b", "c", "d", "e", "f"}
matches_hex_pattern(v) ==
    Len(v) = 7 /\ v[1] = "#" /\ \A i \in 2..7 : v[i] \in HexDigits

\* story: the key is missing, or an object with palette.ansi_fg
StoryMissing == [form |-> "missing", ansi_fg |-> <<>>]
StoryObject(ansi_fg) == [form |-> "object", ansi_fg |-> ansi_fg]
Stories == {StoryMissing} \cup {StoryObject(c) : c \in Colors}

\* The repository's reference document: no player key, one stage, two
\* enemies, three bullet patterns.
SAMPLE_GAME_DATA ==
    [story |-> StoryObject(<<"#", "0", "0", "F", "F", "D", "1">>),
     player |-> "missing",
     stages |-> <<[id |-> "mod-init", num |-> 240]>>,
     enemies |-> <<[id |-> "glyph_worm", num |-> 24], [id |-> "rib_sentry", num |-> 48]>>,
     bullet_patterns |-> [form |-> "list",
                          items |-> <<[id |-> "fan_5", num |-> 800],
                                      [id |-> "burst_32", num |-> 1500],
                                      [id |-> "spiral_dual", num |-> 100]>>]]

Documents == [story : Stories,
              player : {"ok", "missing"},
              stages : SeqsUpTo(Stages, MaxItems),
              enemies : SeqsUpTo(Enemies, MaxItems),
              bullet_patterns : PatternFields]
             \cup {SAMPLE_GAME_DATA}
EmptyDocument == [story |-> StoryMissing, player |-> "missing",
                  stages |-> <<>>, enemies |-> <<>>,
                  bullet_patterns |-> [form |-> "absent", items |-> <<>>]]

\* One entry of ValidationError.errors(): loc (field, item index or 0,
\* item field or "") and msg.
ErrorEntry(field, index, sub, msg) == [field |-> field, index |-> index, sub |-> sub, msg |-> msg]

\* Field(..., ge=, le=)
InRange(v, range) == range.ge <= v /\ v <= range.le

\* The errors of a list's items, in index order (one constrained field each).
RECURSIVE ItemErrors(_, _, _, _, _)
ItemErrors(field, items, sub, range, i) ==
    IF i > Len(items) THEN <<>>
    ELSE (IF InRange(items[i].num, range) THEN <<>>
          ELSE <<ErrorEntry(field, i, sub,
                    IF items[i].num < range.ge THEN "greater_than_equal" ELSE "less_than_equal")>>)
         \o ItemErrors(field, items, sub, range, i + 1)

\* len(ids) != len(set(ids))
HasDuplicateIds(items) == \E i, j \in DOMAIN items : i # j /\ items[i].id = items[j].id

\* A list field with an "after" field_validator: the items are validated
\* first; the length constraint is checked only when every item is valid,
\* and the validator runs only when the list itself validated.
ListFieldErrors(field, items, sub, range, min_length, unique_msg) ==
    LET item_errors == ItemErrors(field, items, sub, range, 1)
    IN  IF item_errors # <<>> THEN item_errors
        ELSE IF Len(items) < min_length THEN <<ErrorEntry(field, 0, "", "too_short")>>
        ELSE IF HasDuplicateIds(items) THEN <<ErrorEntry(field, 0, "", unique_msg)>>
        ELSE <<>>

\* validate_patterns is called with the validated value of the field; an
\* omitted key takes the default and is not validated; for null the value is
\* None and the comprehension over it raises TypeError.
validate_patterns_raises(field) == field.form = "null"

\* GameData(**data): the errors of all fields, in declaration order.
GameDataErrors(data) ==
    (IF data.story.form = "missing" THEN <<ErrorEntry("story", 0, "", "missing")>>
     ELSE IF ~matches_hex_pattern(data.story.ansi_fg)
     THEN <<ErrorEntry("story", 0, "ansi_fg", "string_pattern_mismatch")>>
     ELSE <<>>)
    \o (IF data.player = "missing" THEN <<ErrorEntry("player", 0, "", "missing")>> ELSE <<>>)
    \o ListFieldErrors("stages", data.stages, "length_sec", LengthSecRange, 1,
                       "Value error, Stage IDs must be unique")
    \o ListFieldErrors("enemies", data.enemies, "hp", HpRange, 1,
                       "Value error, Enemy IDs must be unique")
    \o (IF data.bullet_patterns.form = "list"
        THEN ListFieldErrors("bullet_patterns", data.bullet_patterns.items, "cooldown_ms",
                             CooldownMsRange, 0,
                             "Value error, Bullet pattern IDs must be unique")
        ELSE <<>>)

\* format_validation_error: one line per entry of error.errors()
format_validation_error(errors) == errors

NoValidation == [status |-> "none", is_valid |-> FALSE, game_data |-> EmptyDocument,
                 error_msg |-> <<>>]

\* validate_game_data: only pydantic's ValidationError is caught; the
\* TypeError of validate_patterns propagates to the caller.
validate_game_data(data) ==
    IF validate_patterns_raises(data.bullet_patterns)
    THEN [status |-> "raised", is_valid |-> FALSE, game_data |-> EmptyDocument,
          error_msg |-> <<>>]
    ELSE IF GameDataErrors(data) = <<>>
    THEN [status |-> "returned", is_valid |-> TRUE, game_data |-> data, error_msg |-> <<>>]
    ELSE [status |-> "returned", is_valid |-> FALSE, game_data |-> EmptyDocument,
          error_msg |-> format_validation_error(GameDataErrors(data))]

\* Validated values as get_validation_summary reads them: every stage with
\* its waves and its boss phases (both lists have min_length=1), the other
\* collections by their items, tui_skin None or an object.
ListsOf(item, n) == UNION {[1..k -> {item}] : k \in 1..n}
SummaryStages == [waves : ListsOf("wave", MaxPerStage),
                  boss : [phases : ListsOf("phase", MaxPerStage)]]
TuiSkins == {[form |-> "none", glyph_bullets |-> FALSE]}
            \cup [form : {"object"}, glyph_bullets : BOOLEAN]
SummaryValues ==
    [game_id : {"g1"}, story : [os_name : {"FantasyOS"}],
     stages : SeqsUpTo(SummaryStages, MaxItems) \ {<<>>},
     enemies : ListsOf("enemy", MaxItems),
     bullet_patterns : {[form |-> "absent", items |-> <<>>]}
                       \cup [form : {"list"},
                             items : {<<>>} \cup ListsOf("pattern", MaxItems)],
     weapons : ListsOf("weapon", MaxItems),
     pickups : ListsOf("pickup", MaxItems),
     tui_skin : TuiSkins]

\* sum(len(stage.waves) for stage in game_data.stages), over the first stage
\* only
RECURSIVE total_waves_first_stage(_, _)
total_waves_first_stage(stages, i) ==
    IF i > Len(stages) THEN 0
    ELSE Len(stages[1].waves) + total_waves_first_stage(stages, Len(stages) + 1)

\* sum(len(stage.waves) for stage in game_data.stages), from stage i on
RECURSIVE total_waves(_, _)
total_waves(stages, i) ==
    IF i > Len(stages) THEN 0
    ELSE Len(stages[i].waves) + total_waves(stages, i + 1)

\* sum(len(stage.boss.phases) for stage in game_data.stages), from stage i on
RECURSIVE total_boss_phases(_, _)
total_boss_phases(stages, i) ==
    IF i > Len(stages) THEN 0
    ELSE Len(stages[i].boss.phases) + total_boss_phases(stages, i + 1)

\* "pattern_count": len(game_data.bullet_patterns) if game_data.bullet_patterns else 0
get_validation_summary(game_data) ==
    [game_id |-> game_data.game_id,
     os_name |-> game_data.story.os_name,
     stage_count |-> Len(game_data.stages),
     enemy_count |-> Len(game_data.enemies),
     pattern_count |-> IF game_data.bullet_patterns.form = "list"
                          /\ game_data.bullet_patterns.items # <<>>
                       THEN Len(game_data.bullet_patterns.items) ELSE 0,
     weapon_count |-> Len(game_data.weapons),
     pickup_count |-> Len(game_data.pickups),
     total_waves |-> total_waves(game_data.stages, 1),
     total_boss_phases |-> total_boss_phases(game_data.stages, 1),
     glyph_bullets |-> IF game_data.tui_skin.form = "object"
                       THEN game_data.tui_skin.glyph_bullets ELSE FALSE]

NoSummary == [stage_count |-> 0]

\* The validated value, for SpecSummary
SummaryInputs ==
    /\ fn_pc = "start"
    /\ fn_in \in SummaryValues
    /\ fn_out = NoSummary

\* test_validation_summary: summary = get_validation_summary(game_data)
summarize ==
    /\ fn_pc = "start"
    /\ fn_pc' = "done"
    /\ fn_out' = get_validation_summary(fn_in)
    /\ UNCHANGED fn_in
    /\ UNCHANGED <<text_vars, image_vars, key_vars, sprite_vars, valid_vars, route_vars,
                   bridge_vars, pool_vars, other_vars>>

ValidInit ==
    /\ v_pc = "start"
    /\ v_doc = EmptyDocument
    /\ v_result = NoValidation

\* The document to validate, for SpecValidate
ValidInputs ==
    /\ v_pc = "start"
    /\ v_doc \in Documents
    /\ v_result = NoValidation

\* A caller validates the document.
validate_document ==
    /\ v_pc = "start"
    /\ v_pc' = "done"
    /\ v_result' = validate_game_data(v_doc)
    /\ UNCHANGED v_doc
    /\ UNCHANGED <<text_vars, image_vars, key_vars, sprite_vars, route_vars, more_vars>>

\* ------------------------------------------------------------------------
\* Serialization round trip of GameData: models/game_data.py
\* ------------------------------------------------------------------------
\* game_id values (uuid4 strings, or given in the document)
GameIds == {"g1", "g2"}

\* A GameData value: its game_id and its other fields.  bullet_patterns of
\* form "absent" is the attribute value None.
GameDataValue(game_id, fields) == [game_id |-> game_id, fields |-> fields]
NoGameData == GameDataValue("", EmptyDocument)

\* The values GameData(**data) constructs from the documents
GameDataValues ==
    {GameDataValue(u, validate_game_data(d).game_data) :
        u \in GameIds,
        d \in {x \in Documents : validate_game_data(x).is_valid}}

\* model_dump() / json.loads(model_dump_json()): every field is written, an
\* attribute that is None as None / null.
model_dump(g) ==
    [game_id |-> g.game_id,
     fields |-> [g.fields EXCEPT !.bullet_patterns =
                    IF @.form = "absent" THEN [form |-> "null", items |-> <<>>] ELSE @]]

\* GameData(**parsed): game_id is taken from the document.
NoRoundTrip == [status |-> "none", is_valid |-> FALSE, value |-> NoGameData]
validate_serialized(g) ==
    LET parsed == model_dump(g)
        validated == validate_game_data(parsed.fields)
    IN  [status |-> validated.status,
         is_valid |-> validated.is_valid,
         value |-> IF validated.is_valid
                   THEN GameDataValue(parsed.game_id, validated.game_data)
                   ELSE NoGameData]

FnInit ==
    /\ fn_pc = "start"
    /\ fn_in = <<>>
    /\ fn_out = <<>>

\* The value to serialize, for SpecRoundTrip
RoundTripInputs ==
    /\ fn_pc = "start"
    /\ fn_in \in GameDataValues
    /\ fn_out = NoRoundTrip

\* test_json_serialization: dump the value and validate the dump.
round_trip ==
    /\ fn_pc = "start"
    /\ fn_pc' = "done"
    /\ fn_out' = validate_serialized(fn_in)
    /\ UNCHANGED fn_in
    /\ UNCHANGED <<text_vars, image_vars, key_vars, sprite_vars, valid_vars, route_vars,
                   bridge_vars, pool_vars, other_vars>>

\* ------------------------------------------------------------------------
\* Background removal on a raster: utils/image_processing.py
\* ------------------------------------------------------------------------
\* data[i][j]: the RGBA pixel of row i, column j
Pixel(r, g, b, a) == [r |-> r, g |-> g, b |-> b, a |-> a]
Rgb(r, g, b) == [r |-> r, g |-> g, b |-> b]

\* Colours: chroma-key green; three greenish colours at distance 15, 40, 45
\* and sqrt(1226) from it; two colours that are not greenish.
ChromaGreen == Rgb(0, 255, 0)
NearGreen == Rgb(10, 250, 10)
MidFeather == Rgb(40, 255, 0)
FeatherEdge == Rgb(45, 255, 0)
JustOutside == Rgb(35, 254, 0)
Red == Rgb(200, 30, 30)
DarkGreen == Rgb(0, 150, 0)
AllColors == {ChromaGreen, NearGreen, MidFeather, FeatherEdge, JustOutside, Red, DarkGreen}
OldAlphas == {255, 100}
WithAlpha(colors) == {Pixel(c.r, c.g, c.b, a) : c \in colors, a \in OldAlphas}

\* Rasters: 2x2 over five colours and two alphas; 2x3 of opaque pixels over
\* three colours; 3x3 with a border of one chroma-key green pixel value and
\* any centre pixel.
Rasters2x2 ==
    LET px == WithAlpha({ChromaGreen, MidFeather, FeatherEdge, JustOutside, Red})
    IN  {<<<<a, b>>, <<c, d>>>> : a \in px, b \in px, c \in px, d \in px}
Rasters2x3 ==
    LET px == {Pixel(c.r, c.g, c.b, 255) : c \in {ChromaGreen, Red, DarkGreen}}
    IN  {<<<<a, b, c>>, <<d, e, f>>>> :
            a \in px, b \in px, c \in px, d \in px, e \in px, f \in px}
Rasters3x3 ==
    {<<<<k, k, k>>, <<k, c, k>>, <<k, k, k>>>> :
        k \in WithAlpha({ChromaGreen}), c \in WithAlpha(AllColors)}
Rasters == Rasters2x2 \cup Rasters2x3 \cup Rasters3x3
NoRaster == <<>>

\* tolerance: 0, the default, and the value the sprite wrappers pass
DefaultTolerance == 35
SpriteTolerance == 80
Tolerances == {0, DefaultTolerance, SpriteTolerance}

\* Lines 40-53: top row, bottom row, left column, right column
edge_samples(data) ==
    LET height == Len(data)
        width == Len(data[1])
    IN  data[1] \o data[height] \o [i \in 1..height |-> data[i][1]]
        \o [i \in 1..height |-> data[i][width]]

\* Lines 55-60: G > 150 and G > R and G > B
GreenThreshold == 150
is_greenish(p) == p.g > GreenThreshold /\ p.g > p.r /\ p.g > p.b
greenish_pixels(samples) == SelectSeq(samples, is_greenish)

\* np.median(values).astype(int): the values in order, the middle one or
\* the mean of the two middle ones, the fraction dropped.
RECURSIVE insert_sorted(_, _)
insert_sorted(sorted, v) ==
    IF sorted = <<>> THEN <<v>>
    ELSE IF v <= Head(sorted) THEN <<v>> \o sorted
    ELSE <<Head(sorted)>> \o insert_sorted(Tail(sorted), v)
RECURSIVE sort_values(_)
sort_values(values) ==
    IF values = <<>> THEN <<>>
    ELSE insert_sorted(sort_values(Tail(values)), Head(values))
median_as_int(values) ==
    LET n == Len(values)
        sorted == sort_values(values)
    IN  IF n % 2 = 1 THEN sorted[(n + 1) \div 2]
        ELSE (sorted[n \div 2] + sorted[n \div 2 + 1]) \div 2

median_color(samples) ==
    Rgb(median_as_int([i \in DOMAIN samples |-> samples[i].r]),
        median_as_int([i \in DOMAIN samples |-> samples[i].g]),
        median_as_int([i \in DOMAIN samples |-> samples[i].b]))

\* Lines 62-69, without the greenish subset
bg_color_of_all_samples(data) == median_color(edge_samples(data))

\* Lines 62-69
bg_color(data) ==
    IF Len(greenish_pixels(edge_samples(data))) > 0
    THEN median_color(greenish_pixels(edge_samples(data)))
    ELSE median_color(edge_samples(data))

\* Lines 73-77: the square of color_distance
distance_squared(p, bg) ==
    (p.r - bg.r) * (p.r - bg.r) + (p.g - bg.g) * (p.g - bg.g) + (p.b - bg.b) * (p.b - bg.b)

\* color_distance < tolerance
green_mask_strict(p, bg, tolerance) == distance_squared(p, bg) < tolerance * tolerance

\* Line 80: color_distance <= tolerance (tolerance >= 0)
green_mask(p, bg, tolerance) == distance_squared(p, bg) <= tolerance * tolerance

\* Lines 92-93: tolerance < color_distance <= tolerance + 10
FeatherWidth == 10
feather_mask(p, bg, tolerance) ==
    /\ distance_squared(p, bg) > tolerance * tolerance
    /\ distance_squared(p, bg) <= (tolerance + FeatherWidth) * (tolerance + FeatherWidth)

\* Line 96: ((color_distance - tolerance) / 10 * 255).astype(np.uint8), the
\* largest a with tolerance + a / 25.5 <= color_distance
MaxAlpha == 255
feather_alpha(p, bg, tolerance) ==
    CHOOSE a \in 0..MaxAlpha :
        /\ (2 * a + 51 * tolerance) * (2 * a + 51 * tolerance)
              <= 2601 * distance_squared(p, bg)
        /\ \/ a = MaxAlpha
           \/ (2 * (a + 1) + 51 * tolerance) * (2 * (a + 1) + 51 * tolerance)
                 > 2601 * distance_squared(p, bg)

\* Line 97 with the old alpha scaled by the feather alpha instead of capped
feathered_scaled(old_alpha, alpha) == (old_alpha * alpha) \div MaxAlpha

\* Line 97 without the minimum: the feather alpha replaces the old alpha
feathered_overwrite(old_alpha, alpha) == alpha

\* Line 97: np.minimum(data[feather_mask, 3], feather_alpha)
feathered(old_alpha, alpha) == IF alpha < old_alpha THEN alpha ELSE old_alpha

\* Lines 88-97 for one pixel
new_alpha(p, bg, tolerance) ==
    IF green_mask(p, bg, tolerance) THEN 0
    ELSE IF feather_mask(p, bg, tolerance)
    THEN feathered(p.a, feather_alpha(p, bg, tolerance))
    ELSE p.a

\* Lines 37-100: the raster after the removal
remove_from_raster(data, tolerance) ==
    [i \in DOMAIN data |->
        [j \in DOMAIN data[i] |->
            [data[i][j] EXCEPT !.a = new_alpha(data[i][j], bg_color(data), tolerance)]]]

\* The argument base64_image: a string with a data URL prefix, with the
\* prefix "data:" and no comma, or with no prefix; its payload decodes to an
\* image or not.
PngPrefix == "data:image/png;base64,"
Prefixes == {PngPrefix, "data:", ""}
Encoded(prefix, decodable, data) == [prefix |-> prefix, decodable |-> decodable, data |-> data]
EncodedImages ==
    {Encoded(pf, FALSE, NoRaster) : pf \in Prefixes}
    \cup {Encoded(PngPrefix, TRUE, d) : d \in Rasters}
    \cup {Encoded(pf, TRUE, d) : pf \in {"data:", ""}, d \in Rasters3x3}

\* Whether the body of the try raises: split(',', 1)[1] without a comma,
\* b64decode / Image.open on a payload that is no image, or a fault in
\* the processing (fault = "error").
Faults == {"none", "error"}
try_raises(base64_image, fault) ==
    base64_image.prefix = "data:" \/ ~base64_image.decodable \/ fault = "error"

\* What the call returned, with the observations fault and bg_color (the
\* colour the call printed)
NoColor == Rgb(0, 0, 0)
Removal(status, image, fault, bg) ==
    [status |-> status, image |-> image, fault |-> fault, bg_color |-> bg]
NoRemoval == Removal("none", Encoded("", FALSE, NoRaster), "none", NoColor)

\* Lines 109-112 with the exception re-raised
remove_solid_background_raising(base64_image, tolerance, fault) ==
    IF try_raises(base64_image, fault)
    THEN Removal("raised", Encoded("", FALSE, NoRaster), fault, NoColor)
    ELSE Removal("returned",
                 Encoded(PngPrefix, TRUE, remove_from_raster(base64_image.data, tolerance)),
                 fault, bg_color(base64_image.data))

\* remove_solid_background(base64_image, tolerance) on a raster
remove_solid_background_raster(base64_image, tolerance, fault) ==
    IF try_raises(base64_image, fault)
    THEN Removal("returned", base64_image, fault, NoColor)
    ELSE Removal("returned",
                 Encoded(PngPrefix, TRUE, remove_from_raster(base64_image.data, tolerance)),
                 fault, bg_color(base64_image.data))

\* The image and the tolerance, for SpecRemoval
RemovalInputs ==
    /\ fn_pc = "start"
    /\ fn_in \in [base64_image : EncodedImages, tolerance : Tolerances]
    /\ fn_out = NoRemoval

\* A caller removes the background.
remove_background(fault) ==
    /\ fn_pc = "start"
    /\ fn_pc' = "done"
    /\ fn_out' = remove_solid_background_raster(fn_in.base64_image, fn_in.tolerance, fault)
    /\ UNCHANGED fn_in
    /\ UNCHANGED <<text_vars, image_vars, key_vars, sprite_vars, valid_vars, route_vars,
                   bridge_vars, pool_vars, other_vars>>

\* ------------------------------------------------------------------------
\* Partial validation: utils/validation.py
\* ------------------------------------------------------------------------
\* field_models: the recognized field kinds
field_models == {"story", "enemy", "bullet_pattern", "weapon", "pickup", "tui_skin", "stage"}

\* Field kinds a caller may pass: the recognized ones, the docstring's
\* examples 'enemies' and 'bullet_patterns', and 'player'.
FieldKinds == field_models \cup {"enemies", "bullet_patterns", "player"}

\* The required fields (Field(...) without default) of each model, in
\* declaration order
RequiredFields(field) ==
    IF field = "story" THEN <<"os_name", "tagline", "palette">>
    ELSE IF field = "enemy" THEN <<"id", "name", "hp", "speed", "radius", "sprite_prompt">>
    ELSE IF field = "bullet_pattern" THEN <<"id", "type", "cooldown_ms">>
    ELSE IF field = "weapon" THEN <<"id", "dps", "projectile_speed", "fire_rate">>
    ELSE IF field = "pickup" THEN <<"id", "effect">>
    ELSE IF field = "tui_skin" THEN <<"frame_prompt", "glyph_set", "crt_effects">>
    ELSE IF field = "stage"
    THEN <<"id", "title", "scroll_speed", "length_sec", "parallax", "waves", "boss">>
    ELSE <<>>

\* One field with a default, in declaration order after the required ones
OptionalField(field) ==
    IF field = "enemy" THEN "score"
    ELSE IF field = "bullet_pattern" THEN "speed"
    ELSE IF field = "weapon" THEN "spread"
    ELSE IF field = "pickup" THEN "sprite_prompt"
    ELSE IF field = "tui_skin" THEN "glyph_bullets"
    ELSE "none"

Range(seq) == {seq[i] : i \in DOMAIN seq}

\* Fragments: the keys present (required ones, the optional one, a key the
\* model does not declare) and at most MaxInvalid of them with a value that
\* violates its constraint.  For an unrecognized kind the keys are Enemy's.
FragmentKeys(field) ==
    LET kind == IF field \in field_models THEN field ELSE "enemy"
    IN  Range(RequiredFields(kind)) \cup ({OptionalField(kind)} \ {"none"}) \cup {"extra"}
Fragments(field) ==
    {d \in [present : SUBSET FragmentKeys(field),
            invalid : SUBSET (FragmentKeys(field) \ {"extra"})] :
        d.invalid \subseteq d.present /\ Cardinality(d.invalid) <= MaxInvalid}
PartialInputsSet ==
    UNION {{[data |-> d, field |-> f] : d \in Fragments(f)} : f \in FieldKinds}

\* error.errors() of Model(**data): declared fields in order, "missing" for
\* an absent required key, the constraint's error for an invalid value.
RECURSIVE FieldErrors(_, _, _)
FieldErrors(data, names, i) ==
    IF i > Len(names) THEN <<>>
    ELSE (IF names[i] \notin data.present
          THEN <<ErrorEntry(names[i], 0, "", "missing")>>
          ELSE IF names[i] \in data.invalid
          THEN <<ErrorEntry(names[i], 0, "", "invalid")>>
          ELSE <<>>)
         \o FieldErrors(data, names, i + 1)

\* The optional field is reported only when present with an invalid value.
OptionalErrors(data, field) ==
    IF OptionalField(field) \in data.invalid
    THEN <<ErrorEntry(OptionalField(field), 0, "", "invalid")>> ELSE <<>>

ModelErrors(data, field) ==
    FieldErrors(data, RequiredFields(field), 1) \o OptionalErrors(data, field)

\* The second component of the returned tuple
PartialMessage(head, field, entries) == [head |-> head, field |-> field, entries |-> entries]
NoMessage == PartialMessage("", "", <<>>)
NoPartialResult == [status |-> "none", is_valid |-> FALSE, error_msg |-> NoMessage]

\* The unknown-field test dropped: an unrecognized kind validates nothing.
validate_partial_game_data_unchecked(data, field) ==
    IF ModelErrors(data, field) = <<>>
    THEN [status |-> "returned", is_valid |-> TRUE, error_msg |-> NoMessage]
    ELSE [status |-> "returned", is_valid |-> FALSE,
          error_msg |-> PartialMessage("Validation failed:", "",
                                       format_validation_error(ModelErrors(data, field)))]

validate_partial_game_data(data, field) ==
    IF field \notin field_models
    THEN [status |-> "returned", is_valid |-> FALSE,
          error_msg |-> PartialMessage("Unknown field: ", field, <<>>)]
    ELSE IF ModelErrors(data, field) = <<>>
    THEN [status |-> "returned", is_valid |-> TRUE, error_msg |-> NoMessage]
    ELSE [status |-> "returned", is_valid |-> FALSE,
          error_msg |-> PartialMessage("Validation failed:", "",
                                       format_validation_error(ModelErrors(data, field)))]

\* The fragment and the field kind, for SpecPartial
PartialInputs ==
    /\ fn_pc = "start"
    /\ fn_in \in PartialInputsSet
    /\ fn_out = NoPartialResult

\* A caller validates the fragment.
validate_fragment ==
    /\ fn_pc = "start"
    /\ fn_pc' = "done"
    /\ fn_out' = validate_partial_game_data(fn_in.data, fn_in.field)
    /\ UNCHANGED fn_in
    /\ UNCHANGED <<text_vars, image_vars, key_vars, sprite_vars, valid_vars, route_vars,
                   bridge_vars, pool_vars, other_vars>>

\* ------------------------------------------------------------------------
\* The /generate-game endpoint: routes/game.py
\* ------------------------------------------------------------------------
\* len(user_prompt) < 10
MinPromptLen == 10

\* user_prompt values after .strip(): the text and its length
RequestPrompts ==
    {[text |-> "p1", len |-> MinPromptLen],
     [text |-> "nine char", len |-> MinPromptLen - 1], [text |-> "", len |-> 0]}
AbsentPrompt == [text |-> "absent", len |-> 0]
AllowedDifficulties == {"easy", "normal", "hard"}
RequestDifficulties == {"absent", "hard", "extreme"}

\* Request bodies: "empty" (JSON content type, no body), "not_json" (no JSON
\* content type), "null" (the JSON text null), or a JSON object.
NoFieldsRequest(body) == [body |-> body, user_prompt |-> AbsentPrompt, difficulty |-> "absent"]
Requests ==
    {NoFieldsRequest(b) : b \in {"empty", "not_json", "null"}}
    \cup [body : {"object"}, user_prompt : RequestPrompts \cup {AbsentPrompt},
          difficulty : RequestDifficulties]

\* request.get_json(): raises BadRequest on a body that does not parse;
\* without a JSON content type it returns None or raises, depending on the
\* Werkzeug version.
GetJsonOutcomes == {"returns_none", "raises"}
get_json(req, outcome) ==
    IF req.body = "empty" THEN "raised"
    ELSE IF req.body = "not_json"
         THEN (IF outcome = "raises" THEN "raised" ELSE "none")
    ELSE IF req.body = "null" THEN "none"
    ELSE "data"

\* jsonify(...), status
Response(status_code, err, details, raw_data) ==
    [status_code |-> status_code, error |-> err, details |-> details, raw_data |-> raw_data]
NoResponse == Response(0, "", <<>>, EmptyDocument)
NoRawData == EmptyDocument

\* Lines 26-47: the checks made before the generation; "pass" when the
\* request goes on to generate_game_json.
request_check(req, outcome) ==
    IF get_json(req, outcome) = "raised"
    THEN Response(500, "Internal server error", <<"BadRequest">>, NoRawData)
    ELSE IF get_json(req, outcome) = "none" \/ req.user_prompt = AbsentPrompt
    THEN Response(400, "Missing required field: user_prompt", <<>>, NoRawData)
    ELSE IF req.user_prompt.len < MinPromptLen
    THEN Response(400, "user_prompt must be at least 10 characters", <<>>, NoRawData)
    ELSE IF (IF req.difficulty = "absent" THEN "normal" ELSE req.difficulty)
                \notin AllowedDifficulties
    THEN Response(400, "difficulty must be one of: easy, normal, hard", <<>>, NoRawData)
    ELSE Response(0, "pass", <<>>, NoRawData)

\* Documents a generated JSON object can be: {} is the empty document; an
\* object with keys is valid, violates a constraint, or has
\* bullet_patterns null (with and without another violation).
ValidDocument ==
    [story |-> StoryObject(HexColor), player |-> "ok",
     stages |-> <<[id |-> "a", num |-> 240]>>,
     enemies |-> <<[id |-> "a", num |-> 24]>>,
     bullet_patterns |-> [form |-> "absent", items |-> <<>>]]
RouteDocuments ==
    {EmptyDocument, ValidDocument,
     [ValidDocument EXCEPT !.enemies = <<[id |-> "a", num |-> 10000]>>],
     [ValidDocument EXCEPT !.bullet_patterns = [form |-> "null", items |-> <<>>]],
     [ValidDocument EXCEPT !.story = StoryMissing,
                           !.bullet_patterns = [form |-> "null", items |-> <<>>]]}
DocumentsOf(game_data) ==
    IF game_data.n = 0 THEN {EmptyDocument} ELSE RouteDocuments \ {EmptyDocument}
\* A JSON text has one content: the object that was read last reads the
\* same again, as a cached document does.
NothingKnown == [game_data |-> JsonObject(0), data |-> EmptyDocument]
KnownDocumentsOf(game_data, known) ==
    IF game_data.n # 0 /\ game_data = known.game_data
    THEN {known.data}
    ELSE DocumentsOf(game_data)
ValidationFailures == {"Generated game data failed validation", "Validation error"}

RouteInit ==
    /\ r_pc = "idle"
    /\ r_req = NoFieldsRequest("null")
    /\ r_response = NoResponse
    /\ r_calls = 0
    /\ r_doc = EmptyDocument
    /\ r_known = NothingKnown
    /\ r_prior = NoResponse

\* POST /generate-game up to the call of generate_game_json(user_prompt,
\* difficulty), made with the defaults max_retries=3, use_cache=True.
generate_game_request(req, outcome) ==
    /\ r_pc = "idle" /\ t_pc = "idle" /\ i_pc = "idle" /\ s_pc = "idle"
    /\ r_req' = req
    /\ r_doc' = EmptyDocument
    /\ r_prior' = IF /\ r_response.error \in ValidationFailures
                     /\ r_req.user_prompt = req.user_prompt
                     /\ FaultFree(t_trace)
                  THEN r_response ELSE NoResponse
    /\ UNCHANGED r_known
    /\ IF request_check(req, outcome).error # "pass"
       THEN /\ r_response' = request_check(req, outcome)
            /\ r_calls' = 0
            /\ UNCHANGED <<r_pc, text_vars>>
       ELSE /\ r_pc' = "generating"
            /\ r_response' = NoResponse
            /\ r_calls' = 1
            /\ generate_game_json_begin(
                  [user_prompt |-> req.user_prompt.text,
                   difficulty |-> IF req.difficulty = "absent" THEN "normal"
                                  ELSE req.difficulty,
                   max_retries |-> 3, use_cache |-> TRUE])
    /\ UNCHANGED <<image_vars, key_vars, sprite_vars, valid_vars, more_vars>>

\* Lines 53-110: generate_game_json has returned (or raised); validate the
\* document and answer.
generate_game_respond(data) ==
    /\ r_pc = "generating" /\ t_pc = "idle" /\ t_result.status # "none"
    /\ r_pc' = "idle"
    /\ IF t_result.status = "raised"
       THEN /\ data = EmptyDocument
            /\ r_response' = Response(500, "Internal server error", <<"PermissionError">>,
                                      NoRawData)
            /\ UNCHANGED <<r_doc, r_known>>
       ELSE IF ~t_result.success
       THEN /\ data = EmptyDocument
            /\ r_response' = Response(500, "Failed to generate game", t_result.error,
                                      NoRawData)
            /\ UNCHANGED <<r_doc, r_known>>
       ELSE /\ data \in KnownDocumentsOf(t_result.game_data, r_known)
            /\ r_doc' = data
            /\ r_known' = IF t_result.game_data.n = 0 THEN r_known
                           ELSE [game_data |-> t_result.game_data, data |-> data]
            /\ LET validated == validate_game_data(data)
               IN  r_response' =
                     IF validated.status = "raised"
                     THEN Response(500, "Validation error", <<"TypeError">>, NoRawData)
                     ELSE IF ~validated.is_valid
                     THEN Response(500, "Generated game data failed validation",
                                   validated.error_msg, data)
                     ELSE Response(200, "", <<>>, validated.game_data)
    /\ UNCHANGED <<r_req, r_calls, r_prior, text_vars>>
    /\ UNCHANGED <<image_vars, key_vars, sprite_vars, valid_vars, more_vars>>

\* ------------------------------------------------------------------------
\* Cache keys of arbitrary argument strings
\* ------------------------------------------------------------------------
\* Strings over a letter and the separator, up to MaxKeyStrLen characters.
KeyChars == {"a", "|"}
KeyStrings == UNION {[1..n -> KeyChars] : n \in 0..MaxKeyStrLen}
KeyTriples == [prompt : KeyStrings, size : KeyStrings, image_type : KeyStrings]
NoKeyTriple == [prompt |-> <<>>, size |-> <<>>, image_type |-> <<>>]

KeyInit ==
    /\ k_pc = "start"
    /\ k_in = <<NoKeyTriple, NoKeyTriple>>
    /\ k_out = <<<<>>, <<>>>>

\* The argument triples of two requests, for SpecKeys
KeyInputs ==
    /\ k_pc = "start"
    /\ k_in \in KeyTriples \X KeyTriples
    /\ k_out = <<<<>>, <<>>>>

\* Two requests compute their cache keys (generate_image, "cache_key = ...").
compute_cache_keys ==
    /\ k_pc = "start"
    /\ k_pc' = "done"
    /\ k_out' = <<get_cache_key(k_in[1].prompt, k_in[1].size, k_in[1].image_type),
                  get_cache_key(k_in[2].prompt, k_in[2].size, k_in[2].image_type)>>
    /\ UNCHANGED k_in
    /\ UNCHANGED <<text_vars, image_vars, sprite_vars, valid_vars, route_vars, more_vars>>

\* ------------------------------------------------------------------------
\* The /patch-story endpoint: routes/shared.py
\* ------------------------------------------------------------------------
\* previous_stage / next_stage of the JSON body: the key is absent, or an
\* object with os_name and tagline, each present or not ({} has neither).
OsNames == {"absent", "OS-A", "OS-B"}
Taglines == {"absent", "tagline"}
StageAbsent == [form |-> "absent", os_name |-> "absent", tagline |-> "absent"]
StageObjects == [form : {"object"}, os_name : OsNames, tagline : Taglines]
StageValues == {StageAbsent} \cup StageObjects

\* Requests with a JSON content type: a body that does not parse ("empty"),
\* the JSON text null, the object {}, or an object with other keys.
BridgeRequest(body, previous, next_stage) ==
    [body |-> body, previous_stage |-> previous, next_stage |-> next_stage]
NoBridgeRequest == BridgeRequest("null", StageAbsent, StageAbsent)
BridgeRequests ==
    {BridgeRequest(b, StageAbsent, StageAbsent) : b \in {"empty", "null", "empty_object"}}
    \cup {BridgeRequest("object", pv, nx) : pv \in StageValues, nx \in StageValues}

\* "not previous": the key is absent (the default {}) or its object is empty
is_empty_stage(stage) ==
    stage.form = "absent" \/ (stage.os_name = "absent" /\ stage.tagline = "absent")

\* previous.get('os_name', 'Unknown OS')
os_name_of(stage) == IF stage.os_name = "absent" THEN "Unknown OS" ELSE stage.os_name

\* jsonify(...), status
BridgeResponse(status_code, err, bridge, previous_os, next_os) ==
    [status_code |-> status_code, error |-> err, bridge |-> bridge,
     previous_os |-> previous_os, next_os |-> next_os]
NoBridgeResponse == BridgeResponse(0, <<>>, "", "", "")

\* Lines 230-239: the checks before the provider call; "pass" when the
\* request goes on.  get_json raises BadRequest on a body that does not
\* parse, which the application's handler for 400 answers (app.py:61-66).
bridge_request_check(req) ==
    IF req.body = "empty"
    THEN BridgeResponse(400, <<"Bad Request">>, "", "", "")
    ELSE IF req.body \in {"null", "empty_object"}
    THEN BridgeResponse(400, <<"Missing request body">>, "", "", "")
    ELSE IF is_empty_stage(req.previous_stage) \/ is_empty_stage(req.next_stage)
    THEN BridgeResponse(400, <<"Missing previous_stage or next_stage">>, "", "", "")
    ELSE BridgeResponse(0, <<"pass">>, "", "", "")

\* What litellm.completion does: returns a text, a text of white space
\* only, a message whose content is None, or raises.
BridgeOutcomes == {"text", "blank_text", "none_content", "exception"}

\* Lines 272-284
bridge_response(req, o) ==
    IF o = "exception"
    THEN BridgeResponse(500, <<"Story generation failed: ", "provider error">>, "", "", "")
    ELSE IF o = "none_content"
    THEN BridgeResponse(500, <<"Story generation failed: ", "AttributeError">>, "", "", "")
    ELSE BridgeResponse(200, <<>>, IF o = "text" THEN "bridge text" ELSE "",
                        os_name_of(req.previous_stage), os_name_of(req.next_stage))

\* A handler that calls the provider again after a failure
position_after_retrying(o) ==
    IF o \in {"exception", "none_content"} THEN "calling" ELSE "idle"

\* The handler returns after its one call, whatever the outcome.
position_after(o) == "idle"

BridgeEvent(op, o) == [op |-> op, outcome |-> o]

BridgeInit ==
    /\ b_pc = "idle"
    /\ b_req = NoBridgeRequest
    /\ b_response = NoBridgeResponse
    /\ b_trace = <<>>

\* POST /patch-story up to the call of litellm.completion
patch_story_request(req) ==
    /\ b_pc = "idle" /\ r_pc = "idle" /\ t_pc = "idle"
    /\ b_req' = req
    /\ b_trace' = <<>>
    /\ IF bridge_request_check(req).status_code # 0
       THEN /\ b_response' = bridge_request_check(req)
            /\ UNCHANGED b_pc
       ELSE /\ b_response' = NoBridgeResponse
            /\ b_pc' = "calling"
    /\ UNCHANGED <<text_vars, image_vars, key_vars, sprite_vars, valid_vars, route_vars,
                   fn_vars, pool_vars, other_vars>>

\* litellm.completion returns or raises, and the handler answers.
patch_story_complete(o) ==
    /\ b_pc = "calling"
    /\ b_trace' = Append(b_trace, BridgeEvent("completion", o))
    /\ b_response' = bridge_response(b_req, o)
    /\ b_pc' = position_after(o)
    /\ UNCHANGED b_req
    /\ UNCHANGED <<text_vars, image_vars, key_vars, sprite_vars, valid_vars, route_vars,
                   fn_vars, pool_vars, other_vars>>

\* ------------------------------------------------------------------------
\* Shared pool of completed stages: database.py
\* ------------------------------------------------------------------------
PyNone == "<None>"
Creators == {"p1", "p2"}
PoolDifficulties == {"easy", "normal"}
GivenGameIds == {"g1"}

\* A game_data dict: whether it has the key "game_id", its value, and the
\* rest of the document.
GameDataDict(has_game_id, game_id, title) ==
    [has_game_id |-> has_game_id, game_id |-> game_id, title |-> title]
GameDataDicts ==
    {GameDataDict(TRUE, g, t) : g \in GivenGameIds, t \in {"t1", "t2"}}
        \cup {GameDataDict(FALSE, "", "t1")}

\* Stage ids: a document's game_id, or the n-th str(uuid.uuid4()) drawn.
GivenId(game_id) == [src |-> "game_id", id |-> game_id, n |-> 0]
Uuid(n) == [src |-> "uuid4", id |-> "", n |-> n]
StageIds == {GivenId(g) : g \in GivenGameIds} \cup {Uuid(n) : n \in 1..MaxUuids}

\* json.dumps / json.loads of the stored document
json_dumps(d) == [json |-> d]
json_loads(s) == s.json

\* Column defaults of a row written by INSERT
DefaultTimesPlayed == 0
DefaultAverageScore == 0

StageRow(stage_id, creator_player_id, game_data_json, player_prompt, difficulty) ==
    [stage_id |-> stage_id, creator_player_id |-> creator_player_id,
     game_data |-> game_data_json, player_prompt |-> player_prompt,
     difficulty |-> difficulty, times_played |-> DefaultTimesPlayed,
     average_score |-> DefaultAverageScore]

\* The uniqueness constraint of completed_stages that INSERT OR REPLACE
\* resolves: rows conflict when they have the same stage_id.
conflicts(row, new_row) == row.stage_id = new_row.stage_id

\* game_data.get('game_id', str(uuid.uuid4()))
stage_id_of(game_data, drawn) ==
    IF game_data.has_game_id THEN GivenId(game_data.game_id) ELSE Uuid(drawn + 1)

\* INSERT OR REPLACE INTO completed_stages: the conflicting rows are deleted,
\* the new row is inserted.
insert_or_replace(rows, new_row) ==
    {row \in rows : ~conflicts(row, new_row)} \cup {new_row}

\* The table after save_completed_stage, were it a plain INSERT under a new id
save_completed_stage_always_new(rows, creator_player_id, game_data, player_prompt, difficulty, drawn) ==
    rows \cup {StageRow(Uuid(drawn + 1), creator_player_id, json_dumps(game_data),
                        player_prompt, difficulty)}

\* The table after save_completed_stage(creator_player_id, game_data,
\* player_prompt, difficulty)
save_completed_stage(rows, creator_player_id, game_data, player_prompt, difficulty, drawn) ==
    insert_or_replace(rows,
        StageRow(stage_id_of(game_data, drawn), creator_player_id,
                 json_dumps(game_data), player_prompt, difficulty))

SaveArgs ==
    {[creator_player_id |-> c, game_data |-> g, player_prompt |-> pd[1],
      difficulty |-> pd[2]] :
        c \in Creators, g \in GameDataDicts,
        pd \in {<<"a", "easy">>, <<"b", "normal">>}}
\* The saves of the runs that exercise the play counter
FewSaveArgs == {a \in SaveArgs : /\ a.creator_player_id = "p1"
                                 /\ a.player_prompt = "a"
                                 /\ a.difficulty = "easy"
                                 /\ a.game_data.title = "t1"}

\* Rows the query of get_random_stage selects, ignoring every filter
select_unfiltered(rows, exclude_player_id, difficulty) == rows

\* Rows the query of get_random_stage selects: "if exclude_player_id:" and
\* "if difficulty:" add their condition only for a truthy argument.
select_filtered(rows, exclude_player_id, difficulty) ==
    {row \in rows :
        /\ (exclude_player_id \notin {PyNone, ""}
                => row.creator_player_id # exclude_player_id)
        /\ (difficulty \notin {PyNone, ""} => row.difficulty = difficulty)}

NoStage == [found |-> FALSE]
FoundStage(row) ==
    [found |-> TRUE, stage_id |-> row.stage_id,
     creator_player_id |-> row.creator_player_id,
     game_data |-> json_loads(row.game_data),
     player_prompt |-> row.player_prompt, difficulty |-> row.difficulty,
     times_played |-> row.times_played, average_score |-> row.average_score]

\* What get_random_stage may return: ORDER BY RANDOM() LIMIT 1 picks any
\* selected row, and None when none is selected.
get_random_stage(rows, exclude_player_id, difficulty) ==
    LET selected == select_filtered(rows, exclude_player_id, difficulty)
    IN  IF selected = {} THEN {NoStage} ELSE {FoundStage(row) : row \in selected}

ExcludeArgs == {PyNone, ""} \cup Creators
DifficultyArgs == {PyNone, ""} \cup PoolDifficulties
NoQuery == [exclude_player_id |-> PyNone, difficulty |-> PyNone, asked |-> FALSE]

Requesters == {1, 2}
Scores == {0, 1}
NoPlayArgs == [stage_id |-> Uuid(0), score |-> 0, caller |-> "none"]
NoPlayRow == [found |-> FALSE, times_played |-> 0, average_score |-> 0]

\* Floor division of Python's "//" for the non-negative operands that occur
new_avg_score(avg_score, times_played, score) ==
    ((avg_score * times_played) + score) \div (times_played + 1)

\* The row UPDATE ... WHERE stage_id = ? leaves behind
update_stage(rows, stage_id, new_times_played, avg) ==
    {IF row.stage_id = stage_id
     THEN [row EXCEPT !.times_played = new_times_played, !.average_score = avg]
     ELSE row : row \in rows}

PoolInit ==
    /\ completed_stages = {}
    /\ uuids_drawn = 0
    /\ g_query = NoQuery
    /\ g_stage = NoStage
    /\ p_pc = [r \in Requesters |-> "idle"]
    /\ p_args = [r \in Requesters |-> NoPlayArgs]
    /\ p_row = [r \in Requesters |-> NoPlayRow]
    /\ p_calls = 0
    /\ n_response = [r \in Requesters |-> 0]
    /\ plays_done = [s \in StageIds |-> 0]
    /\ disturbed = [s \in StageIds |-> FALSE]

InFlight(stage_id) ==
    \E r \in Requesters : p_pc[r] # "idle" /\ p_args[r].stage_id = stage_id

\* The effect of a save_completed_stage call on the pool
SaveToPool(a) ==
    /\ a.game_data.has_game_id \/ uuids_drawn < MaxUuids
    /\ LET stage_id == stage_id_of(a.game_data, uuids_drawn)
       IN  /\ completed_stages' = save_completed_stage(completed_stages,
                   a.creator_player_id, a.game_data, a.player_prompt, a.difficulty,
                   uuids_drawn)
           /\ uuids_drawn' = IF a.game_data.has_game_id THEN uuids_drawn
                             ELSE uuids_drawn + 1
           /\ plays_done' = [plays_done EXCEPT ![stage_id] = 0]
           /\ disturbed' = [disturbed EXCEPT ![stage_id] = InFlight(stage_id)]

\* save_completed_stage is called (by a test or a script)
save_completed_stage_call(a) ==
    /\ SaveToPool(a)
    /\ UNCHANGED <<g_query, g_stage, p_pc, p_args, p_row, p_calls, n_response>>
    /\ UNCHANGED <<text_vars, image_vars, key_vars, sprite_vars, valid_vars,
                   route_vars, fn_vars, bridge_vars, other_vars>>

\* get_random_stage is called directly
get_random_stage_call(exclude_player_id, difficulty) ==
    /\ g_query' = [exclude_player_id |-> exclude_player_id,
                   difficulty |-> difficulty, asked |-> TRUE]
    /\ g_stage' \in get_random_stage(completed_stages, exclude_player_id, difficulty)
    /\ UNCHANGED <<completed_stages, uuids_drawn, p_pc, p_args, p_row, p_calls,
                   n_response, plays_done, disturbed>>
    /\ UNCHANGED <<text_vars, image_vars, key_vars, sprite_vars, valid_vars,
                   route_vars, fn_vars, bridge_vars, other_vars>>

\* increment_stage_plays(stage_id, score) is entered by request r
increment_stage_plays_begin(r, stage_id, score, caller) ==
    /\ p_pc[r] = "idle"
    /\ p_calls < MaxPlayCalls
    /\ p_calls' = p_calls + 1
    /\ p_pc' = [p_pc EXCEPT ![r] = "select"]
    /\ p_args' = [p_args EXCEPT ![r] =
                    [stage_id |-> stage_id, score |-> score, caller |-> caller]]
    /\ p_row' = [p_row EXCEPT ![r] = NoPlayRow]

\* A test or a script calls increment_stage_plays
increment_stage_plays_enter(r, stage_id, score) ==
    /\ increment_stage_plays_begin(r, stage_id, score, "direct")
    /\ UNCHANGED <<completed_stages, uuids_drawn, g_query, g_stage, n_response,
                   plays_done, disturbed>>
    /\ UNCHANGED <<text_vars, image_vars, key_vars, sprite_vars, valid_vars,
                   route_vars, fn_vars, bridge_vars, other_vars>>

\* GET /get-next-stage of request r, up to the call of increment_stage_plays
get_next_stage(r, player_id, difficulty) ==
    /\ p_pc[r] = "idle"
    /\ \E stage \in get_random_stage(completed_stages, player_id, difficulty) :
          IF ~stage.found
          THEN /\ n_response' = [n_response EXCEPT ![r] = 404]
               /\ UNCHANGED <<p_pc, p_args, p_row, p_calls>>
          ELSE /\ increment_stage_plays_begin(r, stage.stage_id, 0, "route")
               /\ n_response' = [n_response EXCEPT ![r] = 0]
    /\ UNCHANGED <<completed_stages, uuids_drawn, g_query, g_stage, plays_done,
                   disturbed>>
    /\ UNCHANGED <<text_vars, image_vars, key_vars, sprite_vars, valid_vars,
                   route_vars, fn_vars, bridge_vars, other_vars>>

\* "Get current stats": the SELECT of increment_stage_plays
increment_stage_plays_select(r) ==
    /\ p_pc[r] = "select"
    /\ LET found == {row \in completed_stages : row.stage_id = p_args[r].stage_id}
       IN  IF found = {}
           THEN /\ p_pc' = [p_pc EXCEPT ![r] = "idle"]
                /\ n_response' = [n_response EXCEPT ![r] =
                        IF p_args[r].caller = "route" THEN 200 ELSE @]
                /\ UNCHANGED p_row
           ELSE /\ \E row \in found :
                      p_row' = [p_row EXCEPT ![r] =
                          [found |-> TRUE, times_played |-> row.times_played,
                           average_score |-> row.average_score]]
                /\ p_pc' = [p_pc EXCEPT ![r] = "update"]
                /\ UNCHANGED n_response
    /\ UNCHANGED <<completed_stages, uuids_drawn, g_query, g_stage, p_args,
                   p_calls, plays_done, disturbed>>
    /\ UNCHANGED <<text_vars, image_vars, key_vars, sprite_vars, valid_vars,
                   route_vars, fn_vars, bridge_vars, other_vars>>

\* new_times_played = times_played + 1
new_times_played(times_played) == times_played + 1

\* The UPDATE and commit of increment_stage_plays
increment_stage_plays_update(r) ==
    /\ p_pc[r] = "update"
    /\ completed_stages' = update_stage(completed_stages, p_args[r].stage_id,
            new_times_played(p_row[r].times_played),
            new_avg_score(p_row[r].average_score, p_row[r].times_played,
                          p_args[r].score))
    /\ plays_done' = [plays_done EXCEPT ![p_args[r].stage_id] = @ + 1]
    /\ p_pc' = [p_pc EXCEPT ![r] = "idle"]
    /\ n_response' = [n_response EXCEPT ![r] =
            IF p_args[r].caller = "route" THEN 200 ELSE @]
    /\ UNCHANGED <<uuids_drawn, g_query, g_stage, p_args, p_row, p_calls, disturbed>>
    /\ UNCHANGED <<text_vars, image_vars, key_vars, sprite_vars, valid_vars,
                   route_vars, fn_vars, bridge_vars, other_vars>>

\* ------------------------------------------------------------------------
\* POST /save-game: routes/shared.py over database.py
\* ------------------------------------------------------------------------
\* Campaign and session ids are the ordinal of the uuid4() drawn for them;
\* 0 stands for a missing or empty id in a request.
NoCampaignId == 0
CampaignIds == 1..MaxCampaigns
\* an id no campaign has
UnknownCampaignId == MaxCampaigns + 1

\* player_stats of a request: {} or a full dict
EmptyStats == [empty |-> TRUE, score |-> 0, lives |-> 0, bombs |-> 0, power |-> 0]
FullStats == [empty |-> FALSE, score |-> 5, lives |-> 2, bombs |-> 1, power |-> 2]
\* player_stats.get(key, default)
stats_get(player_stats, key, default) ==
    IF player_stats.empty THEN default ELSE player_stats[key]

\* game_data of a request: absent, {} or a document
AbsentGameData == [form |-> "absent", dict |-> GameDataDict(FALSE, "", "t1")]
EmptyGameData == [form |-> "empty", dict |-> GameDataDict(FALSE, "", "t1")]
GivenGameData(d) == [form |-> "dict", dict |-> d]

SaveRequest(body, player_id, campaign_id, game_id, player_stats, completed,
            game_data, player_prompt) ==
    [body |-> body, player_id |-> player_id, campaign_id |-> campaign_id,
     game_id |-> game_id, stage_num |-> 1, player_stats |-> player_stats,
     completed |-> completed, game_data |-> game_data,
     player_prompt |-> player_prompt]
NoSaveRequest ==
    SaveRequest("null", "", NoCampaignId, "", EmptyStats, FALSE, AbsentGameData, "")
\* Requests that carry both ids, and requests that lack the body or an id
CompleteSaveRequests ==
    {SaveRequest("object", "p1", c, "g1", sd[1], sd[2], gp[1], gp[2]) :
        c \in {NoCampaignId, UnknownCampaignId} \cup CampaignIds,
        sd \in {<<EmptyStats, FALSE>>, <<FullStats, FALSE>>, <<FullStats, TRUE>>},
        gp \in {<<AbsentGameData, "a">>,
                <<EmptyGameData, "a">>,
                <<GivenGameData(GameDataDict(TRUE, "g1", "t1")), "">>,
                <<GivenGameData(GameDataDict(TRUE, "g1", "t1")), "a">>,
                <<GivenGameData(GameDataDict(FALSE, "", "t1")), "a">>}}
IncompleteSaveRequests ==
    {SaveRequest(b, "p1", NoCampaignId, "g1", FullStats, TRUE,
                 GivenGameData(GameDataDict(TRUE, "g1", "t1")), "a") :
        b \in {"null", "empty_object"}}
    \cup {SaveRequest("object", ids[1], c, ids[2], FullStats, TRUE,
                      GivenGameData(GameDataDict(TRUE, "g1", "t1")), "a") :
            ids \in {<<"", "g1">>, <<"p1", "">>, <<"", "">>},
            c \in {NoCampaignId} \cup CampaignIds}
SaveRequests == CompleteSaveRequests \cup IncompleteSaveRequests

\* The database call of the handler that raises (sqlite3 error), if any
SaveFaults == {"none", "create_campaign", "get_campaign", "create_session",
               "update_campaign", "complete_session", "save_completed_stage"}
\* The calls a request can reach
FaultsOf(req) ==
    IF req \in IncompleteSaveRequests THEN {"none"}
    ELSE {f \in SaveFaults :
            /\ f = "create_campaign" => req.campaign_id = NoCampaignId
            /\ f = "get_campaign" => req.campaign_id # NoCampaignId
            /\ f = "complete_session" => req.completed
            /\ f = "save_completed_stage" =>
                   req.completed /\ req.game_data.form = "dict" /\ req.player_prompt # ""}

\* Column defaults of a row written by create_campaign
DefaultCampaignStats ==
    [current_stage_num |-> 0, total_score |-> 0, lives |-> 3, bombs |-> 3,
     power_level |-> 1]

CampaignRow(campaign_id, player_id) ==
    [campaign_id |-> campaign_id, player_id |-> player_id,
     stats |-> DefaultCampaignStats, updated_at |-> "created"]

\* create_campaign: INSERT INTO campaigns
create_campaign(rows, player_id) ==
    rows \cup {CampaignRow(Cardinality(rows) + 1, player_id)}

\* get_campaign: the row of the id, if any
get_campaign(rows, campaign_id) == {row \in rows : row.campaign_id = campaign_id}

\* create_session: INSERT INTO game_sessions
create_session(sessions, campaign_id, game_id, stage_num, player_stats) ==
    Append(sessions,
           [session_id |-> Len(sessions) + 1, campaign_id |-> campaign_id,
            game_id |-> game_id, stage_num |-> stage_num,
            player_stats |-> json_dumps(player_stats),
            score |-> stats_get(player_stats, "score", 0), completed |-> FALSE])

\* update_campaign with the five keyword arguments save_game passes
update_campaign(rows, campaign_id, stage_num, player_stats) ==
    {IF row.campaign_id = campaign_id
     THEN [row EXCEPT !.stats = [current_stage_num |-> stage_num,
                                 total_score |-> stats_get(player_stats, "score", 0),
                                 lives |-> stats_get(player_stats, "lives", 3),
                                 bombs |-> stats_get(player_stats, "bombs", 3),
                                 power_level |-> stats_get(player_stats, "power", 1)],
                      !.updated_at = "now"]
     ELSE row : row \in rows}

\* complete_session: UPDATE game_sessions SET completed = 1, ...
complete_session(sessions, session_id, final_stats) ==
    [i \in DOMAIN sessions |->
        IF sessions[i].session_id = session_id
        THEN [sessions[i] EXCEPT !.completed = TRUE,
                                 !.player_stats = json_dumps(final_stats),
                                 !.score = stats_get(final_stats, "score", 0)]
        ELSE sessions[i]]

NoStageId == Uuid(0)
SaveResponse(status_code, err, campaign_id, session_id, stage_id, message) ==
    [status_code |-> status_code, error |-> err, campaign_id |-> campaign_id,
     session_id |-> session_id, stage_id |-> stage_id, message |-> message]
NoSaveResponse == SaveResponse(0, "", NoCampaignId, 0, NoStageId, "")
ErrorResponse(status_code, err) ==
    SaveResponse(status_code, err, NoCampaignId, 0, NoStageId, "")

SaveInit ==
    /\ campaigns = {}
    /\ game_sessions = <<>>
    /\ v_req = NoSaveRequest
    /\ v_response = NoSaveResponse
    /\ v_trace = <<>>

\* The request asks for the stage to be shared, were "completed" not looked at
shares_stage_uncompleted(req) ==
    req.game_data.form = "dict" /\ req.player_prompt # ""

\* "if completed:" ... "if game_data and player_prompt:"
shares_stage(req) ==
    req.completed /\ req.game_data.form = "dict" /\ req.player_prompt # ""

\* The state of the handler after each of its database calls; "failed" holds
\* the call that raised.
SaveRun(rows, sessions, campaign_id, trace, failed) ==
    [campaigns |-> rows, sessions |-> sessions, campaign_id |-> campaign_id,
     trace |-> trace, failed |-> failed]

\* Lines 57-63: "Create or get campaign"
save_game_campaign(req, fault) ==
    IF req.campaign_id = NoCampaignId
    THEN IF fault = "create_campaign"
         THEN SaveRun(campaigns, game_sessions, NoCampaignId, <<>>, fault)
         ELSE SaveRun(create_campaign(campaigns, req.player_id), game_sessions,
                      Cardinality(campaigns) + 1, <<"create_campaign">>, "none")
    ELSE IF fault = "get_campaign"
         THEN SaveRun(campaigns, game_sessions, NoCampaignId, <<>>, fault)
         ELSE IF get_campaign(campaigns, req.campaign_id) = {}
              THEN SaveRun(campaigns, game_sessions, NoCampaignId, <<>>, "not_found")
              ELSE SaveRun(campaigns, game_sessions, req.campaign_id, <<>>, "none")

\* Lines 66-76: "Create session", then "Update campaign stats"
save_game_session(req, fault, run) ==
    IF run.failed # "none" THEN run
    ELSE IF fault = "create_session" THEN [run EXCEPT !.failed = fault]
    ELSE LET created == [run EXCEPT
                 !.sessions = create_session(run.sessions, run.campaign_id,
                                  req.game_id, req.stage_num, req.player_stats),
                 !.trace = Append(run.trace, "create_session")]
         IN  IF fault = "update_campaign" THEN [created EXCEPT !.failed = fault]
             ELSE [created EXCEPT
                      !.campaigns = update_campaign(created.campaigns,
                                        run.campaign_id, req.stage_num, req.player_stats),
                      !.trace = Append(created.trace, "update_campaign")]

\* Lines 79-80: complete_session for a completed stage
save_game_complete(req, fault, run) ==
    IF run.failed # "none" \/ ~req.completed THEN run
    ELSE IF fault = "complete_session" THEN [run EXCEPT !.failed = fault]
    ELSE [run EXCEPT
             !.sessions = complete_session(run.sessions, Len(run.sessions),
                                           req.player_stats),
             !.trace = Append(run.trace, "complete_session")]

\* POST /save-game, the whole handler
save_game(req, fault) ==
    /\ v_req' = req
    /\ IF req.body # "object"
       THEN /\ v_response' = ErrorResponse(400, "Missing request body")
            /\ v_trace' = <<>>
            /\ UNCHANGED <<campaigns, game_sessions, completed_stages, uuids_drawn,
                           plays_done, disturbed>>
       ELSE IF req.player_id = "" \/ req.game_id = ""
       THEN /\ v_response' = ErrorResponse(400, "Missing player_id or game_id")
            /\ v_trace' = <<>>
            /\ UNCHANGED <<campaigns, game_sessions, completed_stages, uuids_drawn,
                           plays_done, disturbed>>
       ELSE LET run == save_game_complete(req, fault,
                           save_game_session(req, fault, save_game_campaign(req, fault)))
                shared == run.failed = "none" /\ shares_stage(req)
                         /\ fault # "save_completed_stage"
                a == [creator_player_id |-> req.player_id,
                      game_data |-> req.game_data.dict,
                      player_prompt |-> req.player_prompt, difficulty |-> "normal"]
            IN  /\ Cardinality(run.campaigns) <= MaxCampaigns
                /\ Len(run.sessions) <= MaxSessions
                /\ campaigns' = run.campaigns
                /\ game_sessions' = run.sessions
                /\ IF shared
                   THEN /\ SaveToPool(a)
                        /\ v_trace' = Append(run.trace, "save_completed_stage")
                   ELSE /\ v_trace' = run.trace
                        /\ UNCHANGED <<completed_stages, uuids_drawn, plays_done,
                                       disturbed>>
                /\ v_response' =
                     IF run.failed = "not_found"
                     THEN ErrorResponse(404, "Campaign not found")
                     ELSE IF run.failed # "none"
                             \/ (shares_stage(req) /\ fault = "save_completed_stage")
                     THEN ErrorResponse(500, "sqlite3 error")
                     ELSE IF shared
                     THEN SaveResponse(200, "", run.campaign_id, Len(run.sessions),
                                       stage_id_of(a.game_data, uuids_drawn),
                                       "Game saved and added to shared world")
                     ELSE SaveResponse(200, "", run.campaign_id, Len(run.sessions),
                                       NoStageId, "Game saved")
    /\ UNCHANGED <<g_query, g_stage, p_pc, p_args, p_row, p_calls, n_response>>
    /\ UNCHANGED <<text_vars, image_vars, key_vars, sprite_vars, valid_vars,
                   route_vars, fn_vars, bridge_vars, conc_vars>>

\* ------------------------------------------------------------------------
\* Two generate_image calls for one cache key, interleaved (image_service.py;
\* the development server handles each request in its own thread)
\* ------------------------------------------------------------------------
Callers == {1, 2}
ConcArgs == [prompt |-> <<"a">>, size |-> <<"1024x1024">>, use_cache |-> TRUE,
             image_type |-> <<"enemy">>]
ConcKey == get_cache_key(ConcArgs.prompt, ConcArgs.size, ConcArgs.image_type)
ConcPath == file_path(ConcKey, ConcArgs.image_type)

\* A provider generates a new image on every call: caller c's image bytes
\* are <<c>>.
ConcGeminiOutcomes(c) ==
    {[env EXCEPT !.response.data = IF env.response.has_image THEN <<c>> ELSE <<>>] :
        env \in GeminiOutcomes}
ConcOpenAIOutcomes(c) ==
    {[o EXCEPT !.content = IF o.kind = "image" THEN <<c>> ELSE <<>>] : o \in OpenAIOutcomes}

ConcInit ==
    /\ c_pc = [c \in Callers |-> "idle"]
    /\ c_image = [c \in Callers |-> NoImage]
    /\ c_result = [c \in Callers |-> NoImageResult]
    /\ c_calls = [c \in Callers |-> <<>>]

ConcDone == \A c \in Callers : c_pc[c] = "done"

\* Record what caller c's generate_image call returned.
ConcReturn(c, res) ==
    /\ c_pc' = [c_pc EXCEPT ![c] = "done"]
    /\ c_result' = [c_result EXCEPT ![c] = res]

\* Caller c enters generate_image(prompt, size, use_cache=True, image_type)
\* while nothing is cached for the key.
concurrent_generate_image_enter(c) ==
    /\ c_pc[c] = "idle" /\ i_pc = "idle" /\ i_result = NoImageResult
    /\ \A other \in Callers : c_pc[other] # "done"
    /\ c_pc' = [c_pc EXCEPT ![c] = "check_file"]
    /\ UNCHANGED <<c_image, c_result, c_calls>>
    /\ UNCHANGED <<text_vars, image_vars, key_vars, sprite_vars, valid_vars, route_vars,
                   fn_vars, bridge_vars, pool_vars, save_vars>>

\* Lines 323-329: the filesystem tier; a hit is also stored in memory.
concurrent_check_file(c, fsr) ==
    /\ c_pc[c] = "check_file"
    /\ LET cached_image == load_image_from_cache(image_files, ConcKey,
                                                 ConcArgs.image_type, fsr)
           fs == IF image_files[ConcPath].exists THEN fsr ELSE "ok"
       IN  /\ c_calls' = [c_calls EXCEPT
                             ![c] = Append(@, TierEvent("filesystem", cached_image, fs))]
           /\ IF cached_image # NoImage
              THEN /\ IMAGE_CACHE' = cache_store(IMAGE_CACHE, ConcKey, cached_image)
                   /\ ConcReturn(c, ImageReturned(TRUE, cached_image, <<>>))
              ELSE /\ c_pc' = [c_pc EXCEPT ![c] = "check_memory"]
                   /\ UNCHANGED <<IMAGE_CACHE, c_result>>
    /\ UNCHANGED <<image_files, i_pc, i_args, error, i_result, i_trace, i_snap, last_clear>>
    /\ UNCHANGED c_image
    /\ UNCHANGED <<text_vars, key_vars, sprite_vars, valid_vars, route_vars,
                   fn_vars, bridge_vars, pool_vars, save_vars>>

\* Lines 331-334: the memory tier.
concurrent_check_memory(c) ==
    /\ c_pc[c] = "check_memory"
    /\ c_calls' = [c_calls EXCEPT
                      ![c] = Append(@, TierEvent("memory", IMAGE_CACHE[ConcKey], "ok"))]
    /\ IF IMAGE_CACHE[ConcKey] # NoImage
       THEN ConcReturn(c, ImageReturned(TRUE, IMAGE_CACHE[ConcKey], <<>>))
       ELSE /\ c_pc' = [c_pc EXCEPT ![c] = "primary"]
            /\ UNCHANGED c_result
    /\ UNCHANGED c_image
    /\ UNCHANGED <<text_vars, image_vars, key_vars, sprite_vars, valid_vars, route_vars,
                   fn_vars, bridge_vars, pool_vars, save_vars>>

\* Line 339: the primary provider; the call takes seconds, other threads run.
concurrent_primary(c, env) ==
    /\ c_pc[c] = "primary"
    /\ LET res == generate_image_gemini(env)
       IN  /\ c_calls' = [c_calls EXCEPT ![c] = Append(@, ProviderEvent("primary", res, "ok"))]
           /\ c_image' = [c_image EXCEPT ![c] = res.image]
           /\ c_pc' = [c_pc EXCEPT
                          ![c] = IF provider_succeeded(res) THEN "store_memory"
                                 ELSE "secondary"]
    /\ UNCHANGED c_result
    /\ UNCHANGED <<text_vars, image_vars, key_vars, sprite_vars, valid_vars, route_vars,
                   fn_vars, bridge_vars, pool_vars, save_vars>>

\* Lines 349-361: the fallback provider and the final failure.
concurrent_secondary(c, o) ==
    /\ c_pc[c] = "secondary"
    /\ LET res == generate_image_openai(o)
       IN  /\ c_calls' = [c_calls EXCEPT
                             ![c] = Append(@, ProviderEvent("secondary", res, "ok"))]
           /\ c_image' = [c_image EXCEPT ![c] = res.image]
           /\ IF provider_succeeded(res)
              THEN /\ c_pc' = [c_pc EXCEPT ![c] = "store_memory"]
                   /\ UNCHANGED c_result
              ELSE ConcReturn(c, ImageReturned(FALSE, NoImage,
                                               both_failed_message("", res.error)))
    /\ UNCHANGED <<text_vars, image_vars, key_vars, sprite_vars, valid_vars, route_vars,
                   fn_vars, bridge_vars, pool_vars, save_vars>>

\* Lines 344 and 355: IMAGE_CACHE[cache_key] = image.
concurrent_store_memory(c) ==
    /\ c_pc[c] = "store_memory"
    /\ IMAGE_CACHE' = cache_store(IMAGE_CACHE, ConcKey, c_image[c])
    /\ c_pc' = [c_pc EXCEPT ![c] = "store_file"]
    /\ UNCHANGED <<image_files, i_pc, i_args, error, i_result, i_trace, i_snap, last_clear>>
    /\ UNCHANGED <<c_image, c_result, c_calls>>
    /\ UNCHANGED <<text_vars, key_vars, sprite_vars, valid_vars, route_vars,
                   fn_vars, bridge_vars, pool_vars, save_vars>>

\* Lines 345-347 and 356-358: save_image_to_cache(...), then the return.
concurrent_store_file(c, fsw) ==
    /\ c_pc[c] = "store_file"
    /\ image_files' = save_image_to_cache(image_files, ConcKey, c_image[c],
                                          ConcArgs.image_type, fsw)
    /\ c_calls' = [c_calls EXCEPT
                      ![c] = Append(@, [ev |-> "write", who |-> "filesystem",
                                        ok |-> (fsw = "ok"), image |-> c_image[c],
                                        error |-> "", fs |-> fsw])]
    /\ ConcReturn(c, ImageReturned(TRUE, c_image[c], <<>>))
    /\ UNCHANGED <<IMAGE_CACHE, i_pc, i_args, error, i_result, i_trace, i_snap, last_clear>>
    /\ UNCHANGED c_image
    /\ UNCHANGED <<text_vars, key_vars, sprite_vars, valid_vars, route_vars,
                   fn_vars, bridge_vars, pool_vars, save_vars>>

\* A later call for the same key, after both concurrent calls have completed.
later_generate_image ==
    /\ ConcDone
    /\ generate_image_enter(ConcArgs)

vars == <<text_vars, image_vars, aux_vars>>

OtherInit == FnInit /\ BridgeInit /\ PoolInit /\ SaveInit /\ ConcInit

Init ==
    TextInit /\ ImageInit /\ KeyInit /\ SpriteInit /\ ValidInit /\ RouteInit /\ OtherInit

NextKeys == compute_cache_keys

InitKeys ==
    TextInit /\ ImageInit /\ SpriteInit /\ ValidInit /\ RouteInit /\ OtherInit /\ KeyInputs

SpecKeys == InitKeys /\ [][NextKeys]_vars

NextText ==
    \/ \E a \in TextArgs : generate_game_json_enter(a)
    \/ \E fsr \in ReadOutcomes : generate_game_json_check_cache(fsr)
    \/ \E o \in CompletionOutcomes, fsw \in WriteOutcomes : generate_game_json_attempt(o, fsw)
    \/ generate_game_json_exhausted

SpecText == Init /\ [][NextText]_vars

NextImage ==
    \/ \E a \in ImageArgs : generate_image_enter(a)
    \/ \E fsr \in ReadOutcomes : generate_image_check_cache(fsr)
    \/ \E env \in GeminiOutcomes, fsw \in WriteOutcomes : generate_image_primary(env, fsw)
    \/ \E o \in OpenAIOutcomes, fsw \in WriteOutcomes : generate_image_secondary(o, fsw)
    \/ \E cf \in BOOLEAN, kept \in SUBSET {f \in ImagePaths : image_files[f].exists} :
           clear_cache(cf, kept)

SpecImage == Init /\ [][NextImage]_vars

\* A request to /generate-game, running to its response (with max_retries = 3
\* the retry loop always returns from inside an iteration)
NextRoute ==
    \/ \E req \in Requests, outcome \in GetJsonOutcomes : generate_game_request(req, outcome)
    \/ \E fsr \in ReadOutcomes : generate_game_json_check_cache(fsr)
    \/ \E o \in CompletionOutcomes, fsw \in WriteOutcomes : generate_game_json_attempt(o, fsw)
    \/ \E data \in RouteDocuments : generate_game_respond(data)

SpecRoute == Init /\ [][NextRoute]_vars

NextValidate == validate_document

InitValidate ==
    TextInit /\ ImageInit /\ KeyInit /\ SpriteInit /\ RouteInit /\ OtherInit /\ ValidInputs

\* The states before a helper function is applied, without its input
InitOfHelpers ==
    /\ TextInit /\ ImageInit /\ KeyInit /\ SpriteInit /\ ValidInit /\ RouteInit
    /\ BridgeInit /\ PoolInit /\ SaveInit /\ ConcInit

NextPartial == validate_fragment

InitPartial == InitOfHelpers /\ PartialInputs

SpecPartial == InitPartial /\ [][NextPartial]_vars

NextSummary == summarize

InitSummary == InitOfHelpers /\ SummaryInputs

SpecSummary == InitSummary /\ [][NextSummary]_vars

NextRemoval == \E fault \in Faults : remove_background(fault)

InitRemoval == InitOfHelpers /\ RemovalInputs

SpecRemoval == InitRemoval /\ [][NextRemoval]_vars

NextBridge ==
    \/ \E req \in BridgeRequests : patch_story_request(req)
    \/ \E o \in BridgeOutcomes : patch_story_complete(o)

SpecBridge == Init /\ [][NextBridge]_vars

NextRoundTrip == round_trip

InitRoundTrip == InitOfHelpers /\ RoundTripInputs

SpecRoundTrip == InitRoundTrip /\ [][NextRoundTrip]_vars

SpecValidate == InitValidate /\ [][NextValidate]_vars

\* Calls of both generation clients for one prompt, cached and uncached
NextUncached ==
    \/ \E a \in {x \in TextArgs : /\ x.user_prompt = "p1" /\ x.difficulty = "easy"
                                  /\ x.max_retries \in {0, 2}} :
           generate_game_json_enter(a)
    \/ \E fsr \in ReadOutcomes : generate_game_json_check_cache(fsr)
    \/ \E o \in CompletionOutcomes, fsw \in WriteOutcomes : generate_game_json_attempt(o, fsw)
    \/ generate_game_json_exhausted
    \/ \E a \in {x \in ImageArgs : x.prompt = <<"a">>} : generate_image_enter(a)
    \/ \E fsr \in ReadOutcomes : generate_image_check_cache(fsr)
    \/ \E env \in GeminiOutcomes, fsw \in WriteOutcomes : generate_image_primary(env, fsw)
    \/ \E o \in OpenAIOutcomes, fsw \in WriteOutcomes : generate_image_secondary(o, fsw)

SpecUncached == Init /\ [][NextUncached]_vars

\* The shared pool under saves and random picks
NextPool ==
    \/ \E a \in SaveArgs : save_completed_stage_call(a)
    \/ \E p \in ExcludeArgs, d \in DifficultyArgs : get_random_stage_call(p, d)

SpecPool == Init /\ [][NextPool]_vars

\* Concurrent requests that count plays of pooled stages
NextPlays ==
    \/ \E a \in FewSaveArgs : save_completed_stage_call(a)
    \/ \E r \in Requesters, s \in StageIds, score \in Scores :
           increment_stage_plays_enter(r, s, score)
    \/ \E r \in Requesters, p \in {"p2"}, d \in {PyNone} : get_next_stage(r, p, d)
    \/ \E r \in Requesters : increment_stage_plays_select(r)
    \/ \E r \in Requesters : increment_stage_plays_update(r)

SpecPlays == Init /\ [][NextPlays]_vars

\* POST /save-game requests
NextSave == \E req \in SaveRequests : \E fault \in FaultsOf(req) : save_game(req, fault)

SpecSave == Init /\ [][NextSave]_vars

\* Two concurrent generate_image calls for one uncached key, then later calls
NextConc ==
    \/ \E c \in Callers : concurrent_generate_image_enter(c)
    \/ \E c \in Callers, fsr \in ReadOutcomes : concurrent_check_file(c, fsr)
    \/ \E c \in Callers : concurrent_check_memory(c)
    \/ \E c \in Callers : \E env \in ConcGeminiOutcomes(c) : concurrent_primary(c, env)
    \/ \E c \in Callers : \E o \in ConcOpenAIOutcomes(c) : concurrent_secondary(c, o)
    \/ \E c \in Callers : concurrent_store_memory(c)
    \/ \E c \in Callers, fsw \in WriteOutcomes : concurrent_store_file(c, fsw)
    \/ later_generate_image
    \/ \E fsr \in ReadOutcomes : generate_image_check_cache(fsr)
    \/ \E env \in GeminiOutcomes, fsw \in WriteOutcomes : generate_image_primary(env, fsw)
    \/ \E o \in OpenAIOutcomes, fsw \in WriteOutcomes : generate_image_secondary(o, fsw)

SpecConc == Init /\ [][NextConc]_vars

\* A sprite wrapper call, running to its return
NextSprite ==
    \/ \E a \in SpriteArgs, fsr \in ReadOutcomes : generate_sprite_enter(a, fsr)
    \/ \E fsr \in ReadOutcomes : generate_image_check_cache(fsr)
    \/ \E env \in GeminiOutcomes, fsw \in WriteOutcomes : generate_image_primary(env, fsw)
    \/ \E o \in OpenAIOutcomes, fsw \in WriteOutcomes : generate_image_secondary(o, fsw)
    \/ \E outcome \in RemovalOutcomes, fsw \in WriteOutcomes :
           generate_sprite_finish(outcome, fsw)

SpecSprite == Init /\ [][NextSprite]_vars

Next == NextText \/ NextImage \/ NextKeys \/ NextSprite \/ NextValidate \/ NextRoute

Spec == Init /\ [][Next]_vars

\* A call in flight always takes its next step: the cache lookup and the
\* loop body are straight-line code and completion() is bounded by the
\* provider's timeout.
TextProgress ==
    \/ \E fsr \in ReadOutcomes : generate_game_json_check_cache(fsr)
    \/ \E o \in CompletionOutcomes, fsw \in WriteOutcomes : generate_game_json_attempt(o, fsw)
    \/ generate_game_json_exhausted

SpecTextFair == SpecText /\ WF_vars(TextProgress)

\* ------------------------------------------------------------------------
\* Observations on the trace of a generate_game_json call
\* ------------------------------------------------------------------------
IsCall(e) == e.ev = "call"
IsProviderEvent(e) == e.ev # "lookup"
CompletionCalls == SelectSeq(t_trace, IsCall)
NumCompletionCalls == Len(CompletionCalls)
AttemptEvents == SelectSeq(t_trace, IsProviderEvent)
ServedFromCache == \E i \in DOMAIN t_trace : t_trace[i].ev = "lookup" /\ t_trace[i].ok
EveryCallFailed == \A i \in DOMAIN t_trace : t_trace[i].ev = "call" => ~t_trace[i].ok
TextCallFinished == t_pc = "idle" /\ t_result.status # "none"

\* C1: after a use_cache=True call returned success with document D, the next
\* use_cache=True call with the same prompt returns (True, D, None) and makes
\* zero completion calls (no filesystem operation of either call having
\* failed).
C1_TextCacheHitAvoidsProvider ==
    (TextCallFinished /\ t_args.use_cache /\ t_prior # NotServed /\ FaultFree(t_trace))
        => (/\ t_result = Returned(TRUE, t_prior, NoError)
            /\ NumCompletionCalls = 0)

\* C11: the text cache key depends on the version tag and the prompt only:
\* equal prompts give equal keys whatever the difficulty, different prompts
\* give different keys; and a document returned by a use_cache=True call for
\* (p, d1) is returned by the next use_cache=True call for (p, d2), d2 # d1,
\* with zero completion calls (no filesystem operation having failed).
C11_KeyIgnoresDifficulty ==
    /\ \A p1, p2 \in UserPrompts, d1, d2 \in Difficulties :
          (get_llm_cache_key(p1, d1) = get_llm_cache_key(p2, d2)) <=> (p1 = p2)
    /\ (/\ TextCallFinished /\ t_args.use_cache /\ t_prior # NotServed
        /\ t_prior_difficulty # t_args.difficulty /\ FaultFree(t_trace))
          => (/\ t_result = Returned(TRUE, t_prior, NoError)
              /\ NumCompletionCalls = 0)

\* C3 (safety part): a call never makes more than max_retries completion
\* calls, and a finished call that was not served from the cache and in which
\* every completion call failed has made exactly max_retries calls and
\* returned (False, None, error message).
C3_RetryBound ==
    /\ NumCompletionCalls <= t_args.max_retries
    /\ (t_pc = "idle" /\ t_result.status = "returned" /\ ~ServedFromCache /\ EveryCallFailed)
          => (/\ NumCompletionCalls = t_args.max_retries
              /\ t_result.success = FALSE
              /\ t_result.game_data = JsonNull
              /\ t_result.error # NoError)

\* C3: retry termination -- the bound above always holds and every call that
\* was entered finishes.
C3_RetryTermination ==
    /\ []C3_RetryBound
    /\ ((t_pc # "idle") ~> (t_pc = "idle"))

\* C3 witness: a call with max_retries = MaxRetriesBound whose calls all failed
\* has returned the terminal failure.
C3_Witness ==
    /\ t_pc = "idle" /\ t_result.status = "returned"
    /\ t_args.max_retries = MaxRetriesBound
    /\ EveryCallFailed /\ NumCompletionCalls = MaxRetriesBound
    /\ ~t_result.success

\* C8: backoff schedule.  Calls and sleeps alternate; after failed attempt k
\* (0-based) with k < max_retries-1 the call sleeps 2^k seconds; the final
\* failed attempt is the last event and the call returns the failure carrying
\* that attempt's error detail; a successful attempt is the last event.
C8_BackoffSchedule ==
    LET ev == AttemptEvents
        mr == t_args.max_retries
    IN  /\ \A i \in DOMAIN ev :
              LET k == (i - 1) \div 2
              IN  IF i % 2 = 1
                  THEN /\ ev[i].ev = "call"
                       /\ IF ev[i].ok
                          THEN /\ i = Len(ev)
                               /\ t_pc = "idle"
                               /\ t_result.status = "returned" /\ t_result.success
                          ELSE IF k < mr - 1
                               THEN /\ i + 1 <= Len(ev)
                                    /\ ev[i + 1].ev = "sleep"
                                    /\ ev[i + 1].secs = 2 ^ k
                               ELSE /\ i = Len(ev)
                                    /\ t_pc = "idle"
                                    /\ t_result.status = "returned"
                                    /\ ~t_result.success
                                    /\ t_result.game_data = JsonNull
                                    /\ Len(t_result.error) = 2
                                    /\ t_result.error[2] = ev[i].detail
                                    /\ t_result.error[1] =
                                         (IF ev[i].kind = "parse_error"
                                          THEN "JSON parsing error: " ELSE "LLM error: ")
                  ELSE /\ ev[i].ev = "sleep"
                       /\ ~ev[i - 1].ok
        /\ (t_pc = "idle" /\ Len(ev) > 0) => ev[Len(ev)].ev = "call"

\* C8 witness: two sleeps (1 s, then 2 s) were taken and the third attempt
\* failed with a different kind of error than the first.
C8_Witness ==
    /\ t_pc = "idle" /\ ~t_result.success
    /\ Len(AttemptEvents) = 5
    /\ AttemptEvents[2].secs = 1 /\ AttemptEvents[4].secs = 2
    /\ AttemptEvents[1].kind # AttemptEvents[5].kind

\* ------------------------------------------------------------------------
\* Observations on the trace of a generate_image call
\* ------------------------------------------------------------------------
IsProviderCall(e) == e.ev = "provider"
IsTierRead(e) == e.ev = "read"
ProviderCalls == SelectSeq(i_trace, IsProviderCall)
TierReads == SelectSeq(i_trace, IsTierRead)
ImageCallFinished == i_pc = "idle" /\ i_result.status = "returned"
ImageCacheHit == \E i \in DOMAIN i_trace : i_trace[i].ev = "read" /\ i_trace[i].ok
Contains(msg, reason) == \E i \in DOMAIN msg : msg[i] = reason
SnapFilePayload == DataUri("image/png", i_snap.file.bytes)
FileReadable == i_snap.file.exists /\ Len(TierReads) > 0 /\ TierReads[1].fs = "ok"

\* C2: after a use_cache=True call returned success with image I, the next
\* call with the same (prompt, size, image_type) returns success with the
\* identical string I and calls no provider (no filesystem operation of
\* either call having failed, no clear_cache in between).
C2_ImageCacheHitAvoidsProviders ==
    (ImageCallFinished /\ i_args.use_cache /\ i_snap.prior # NoImage /\ FaultFree(i_trace))
        => (/\ i_result = ImageReturned(TRUE, i_snap.prior, <<>>)
            /\ Len(ProviderCalls) = 0)

\* C4: failover correctness -- when the primary provider failed and the
\* secondary succeeded in a call, the call returns success and its payload is
\* exactly the secondary provider's output.
C4_FailoverCorrectness ==
    \A i, j \in DOMAIN i_trace :
        (/\ ImageCallFinished
         /\ i_trace[i].ev = "provider" /\ i_trace[i].who = "primary" /\ ~i_trace[i].ok
         /\ i_trace[j].ev = "provider" /\ i_trace[j].who = "secondary" /\ i_trace[j].ok)
            => i_result = ImageReturned(TRUE, i_trace[j].image, <<>>)

\* C4 witness: the primary was blocked by the safety filter, the secondary
\* delivered, and the call returned the secondary's image.
C4_Witness ==
    /\ ImageCallFinished /\ i_result.success
    /\ Len(ProviderCalls) = 2
    /\ ProviderCalls[1].error = "Content blocked by safety filters: SAFETY"
    /\ ProviderCalls[2].ok
    /\ i_result.image = ProviderCalls[2].image

\* C5: when both providers fail in one call, the returned error message
\* contains the primary provider's reason and the secondary provider's reason.
C5_BothReasonsSurfaced ==
    (/\ ImageCallFinished /\ ~i_result.success
     /\ Len(ProviderCalls) = 2 /\ ~ProviderCalls[1].ok /\ ~ProviderCalls[2].ok)
        => (/\ Contains(i_result.error, ProviderCalls[1].error)
            /\ Contains(i_result.error, ProviderCalls[2].error))

\* C6: provider ordering -- providers are called only after the cache lookup;
\* the first provider call is the primary, made exactly once in a call that
\* misses the cache; the secondary is called at most once and only after the
\* primary call of the same call failed; after a primary success the call
\* has returned without calling the secondary; a cache hit calls no provider.
C6_ProviderOrdering ==
    LET pc == ProviderCalls
    IN  /\ Len(pc) <= 2
        /\ Len(pc) >= 1 => pc[1].who = "primary"
        /\ Len(pc) = 2 => (pc[2].who = "secondary" /\ ~pc[1].ok)
        /\ (Len(pc) >= 1 /\ pc[1].ok) => (Len(pc) = 1 /\ ImageCallFinished /\ i_result.success)
        /\ \A i, j \in DOMAIN i_trace :
               (i < j /\ i_trace[i].ev = "provider") => i_trace[j].ev = "provider"
        /\ (ImageCallFinished /\ ~ImageCacheHit) => Len(pc) >= 1
        /\ ImageCacheHit => Len(pc) = 0
        /\ (i_pc = "secondary") => (Len(pc) = 1 /\ ~pc[1].ok)

\* C6 witness: a call that missed both tiers, called the primary (which
\* failed) and then the secondary, and has returned.
C6_Witness ==
    /\ ImageCallFinished /\ i_args.use_cache
    /\ Len(TierReads) = 2 /\ ~ImageCacheHit
    /\ Len(ProviderCalls) = 2
    /\ ProviderCalls[1].who = "primary" /\ ProviderCalls[2].who = "secondary"

\* C7 as stated: the memory tier is consulted first and the filesystem tier
\* only on a memory miss; a key present in memory is answered from memory.
C7_MemoryTierFirst ==
    LET r == TierReads
    IN  /\ Len(r) >= 1 => r[1].who = "memory"
        /\ \A i \in DOMAIN r :
               r[i].who = "filesystem" => (i = 2 /\ r[1].who = "memory" /\ ~r[1].ok)
        /\ (ImageCallFinished /\ i_args.use_cache /\ i_snap.mem # NoImage)
               => i_result = ImageReturned(TRUE, i_snap.mem, <<>>)

\* C7 amended: the filesystem tier is consulted first and the memory tier
\* only when the file is absent or unreadable; a key whose file is readable is
\* answered with the file's payload (whatever the memory tier holds) and that
\* payload is in the memory tier when the call returns (until the next
\* clear_cache); a key with no readable file that is in memory is answered
\* from memory.
C7_FilesystemTierFirst ==
    LET r == TierReads
    IN  /\ Len(r) >= 1 => r[1].who = "filesystem"
        /\ \A i \in DOMAIN r :
               r[i].who = "memory" => (i = 2 /\ r[1].who = "filesystem" /\ ~r[1].ok)
        /\ (ImageCallFinished /\ i_args.use_cache /\ FileReadable)
               => (/\ i_result = ImageReturned(TRUE, SnapFilePayload, <<>>)
                   /\ (last_clear = "none" => IMAGE_CACHE[CurrentKey] = SnapFilePayload)
                   /\ Len(r) = 1 /\ Len(ProviderCalls) = 0)
        /\ (ImageCallFinished /\ i_args.use_cache /\ ~FileReadable /\ i_snap.mem # NoImage)
               => (/\ i_result = ImageReturned(TRUE, i_snap.mem, <<>>)
                   /\ Len(r) = 2 /\ Len(ProviderCalls) = 0)

\* C7 witness: the key was in both tiers with different payloads and the
\* call returned the file's payload and copied it into memory.
C7_Witness ==
    /\ ImageCallFinished /\ i_args.use_cache
    /\ i_snap.mem # NoImage /\ i_snap.file.exists
    /\ i_snap.mem # SnapFilePayload
    /\ i_result.image = SnapFilePayload
    /\ IMAGE_CACHE[CurrentKey] = SnapFilePayload

\* C9: cache failures never propagate -- no call ends by raising; a failed
\* read of a cache entry is treated as a miss; a call whose cache write
\* failed returns the success payload the provider gave it.
C9_CacheFailuresNeverPropagate ==
    /\ t_result.status # "raised"
    /\ \A i \in DOMAIN t_trace :
          /\ (t_trace[i].ev = "lookup" /\ t_trace[i].fs # "ok") => ~t_trace[i].ok
          /\ (t_trace[i].ev = "call" /\ t_trace[i].ok /\ t_trace[i].fs # "ok")
                => t_result = Returned(TRUE, t_trace[i].doc, NoError)
    /\ i_result.status # "raised"
    /\ \A i \in DOMAIN i_trace :
          /\ (i_trace[i].ev = "read" /\ i_trace[i].fs # "ok") => ~i_trace[i].ok
          /\ (i_trace[i].ev = "provider" /\ i_trace[i].ok /\ i_trace[i].fs # "ok")
                => i_result = ImageReturned(TRUE, i_trace[i].image, <<>>)

\* C10 (the step): clear_cache empties the memory tier; without
\* clear_filesystem it leaves every file as it was; with clear_filesystem and
\* a complete rmtree no file is left; the text cache is not touched.
ClearCachePost(clear_filesystem, kept) ==
    /\ get_cache_stats'.memory_cached_images = 0
    /\ ~clear_filesystem => image_files' = image_files
    /\ (clear_filesystem /\ kept = {}) =>
          (/\ get_cache_stats'.filesystem_cached_images = 0
           /\ \A f \in ImagePaths : ~image_files'[f].exists)
    /\ llm_files' = llm_files

\* C10 (the next request): after clear_cache(False) a key whose file is
\* readable is served from the file without a provider call; after a
\* complete clear_cache(True) the next request misses both tiers and calls a
\* provider.
C10_NextRequest ==
    /\ (ImageCallFinished /\ i_args.use_cache /\ i_snap.after_clear = "memory" /\ FileReadable)
          => (/\ i_result = ImageReturned(TRUE, SnapFilePayload, <<>>)
              /\ Len(ProviderCalls) = 0)
    /\ (ImageCallFinished /\ i_args.use_cache /\ i_snap.after_clear = "all")
          => (/\ ~ImageCacheHit
              /\ Len(ProviderCalls) >= 1
              /\ ProviderCalls[1].who = "primary")
    /\ (last_clear # "none") => get_cache_stats.memory_cached_images = 0
    /\ (last_clear = "all") => get_cache_stats.filesystem_cached_images = 0

C12_KeyIsContentAddress ==
    k_pc = "done" => ((k_out[1] = k_out[2]) <=> (k_in[1] = k_in[2]))

\* ------------------------------------------------------------------------
\* Observations on the sprite wrappers
\* ------------------------------------------------------------------------
NobgFile(a) == image_files[file_path(nobg_cache_key(a.kind, a.description), a.kind)]
SpriteCallFinished == s_pc = "idle" /\ s_result.status = "returned"

\* C13: raw and transparent sprite variants never collide.  For every wrapper
\* and description the background-removed key differs from the raw key; a
\* call that generated an image and stored it (no filesystem operation
\* having failed) leaves a post-removal image under the background-removed
\* key, never the raw image generate_image returned; a call that finds the
\* background-removed entry returns it and does not call generate_image.
C13_SpriteVariantsNeverCollide ==
    /\ \A a \in SpriteArgs :
          nobg_cache_key(a.kind, a.description) # raw_cache_key(a.kind, a.description)
    /\ (/\ SpriteCallFinished /\ s_obs.generated /\ s_result.success /\ s_obs.fs = "ok")
          => (/\ NobgFile(s_args).exists
              /\ IsPostRemoval(DataUri("image/png", NobgFile(s_args).bytes))
              /\ DataUri("image/png", NobgFile(s_args).bytes) # s_obs.raw)
    /\ (SpriteCallFinished /\ s_obs.hit)
          => (/\ ~s_obs.generated
              /\ s_result = ImageReturned(TRUE,
                      DataUri("image/png", NobgFile(s_args).bytes), <<>>))

\* C14: every successful generate_image result, from either provider or from
\* either cache tier, is a data URI beginning with 'data:image/png;base64,'.
C14_ResultIsPngDataUri ==
    (ImageCallFinished /\ i_result.success) => i_result.image.mime = "image/png"

\* ------------------------------------------------------------------------
\* Observations on validate_game_data
\* ------------------------------------------------------------------------
CollectionFields == {"stages", "enemies", "bullet_patterns"}
CollectionItems(data, field) ==
    IF field = "stages" THEN data.stages
    ELSE IF field = "enemies" THEN data.enemies
    ELSE data.bullet_patterns.items
UniqueMsgs == {"Value error, Stage IDs must be unique",
               "Value error, Enemy IDs must be unique",
               "Value error, Bullet pattern IDs must be unique"}
ReportedEntries == {v_result.error_msg[i] : i \in DOMAIN v_result.error_msg}
ReportsUniqueness(field) == \E e \in ReportedEntries : e.field = field /\ e.msg \in UniqueMsgs
ValidationFailedWithMessage ==
    v_result.status = "returned" /\ ~v_result.is_valid /\ v_result.error_msg # <<>>

\* The range violations of a collection's items
RangeViolations(field, items, sub, range) ==
    {ErrorEntry(field, i, sub,
        IF items[i].num < range.ge THEN "greater_than_equal" ELSE "less_than_equal") :
        i \in {j \in DOMAIN items : ~InRange(items[j].num, range)}}

\* Every constraint a document violates: a missing story or player, a
\* palette colour off its pattern, an item's number out of range, a
\* collection that is too short, ids that are not unique.
ViolatedConstraints(data) ==
    (IF data.story.form = "missing" THEN {ErrorEntry("story", 0, "", "missing")} ELSE {})
    \cup (IF data.story.form = "object" /\ ~matches_hex_pattern(data.story.ansi_fg)
          THEN {ErrorEntry("story", 0, "ansi_fg", "string_pattern_mismatch")} ELSE {})
    \cup (IF data.player = "missing" THEN {ErrorEntry("player", 0, "", "missing")} ELSE {})
    \cup RangeViolations("stages", data.stages, "length_sec", LengthSecRange)
    \cup RangeViolations("enemies", data.enemies, "hp", HpRange)
    \cup RangeViolations("bullet_patterns", data.bullet_patterns.items, "cooldown_ms",
                         CooldownMsRange)
    \cup (IF Len(data.stages) < 1 THEN {ErrorEntry("stages", 0, "", "too_short")} ELSE {})
    \cup (IF Len(data.enemies) < 1 THEN {ErrorEntry("enemies", 0, "", "too_short")} ELSE {})
    \cup (IF HasDuplicateIds(data.stages)
          THEN {ErrorEntry("stages", 0, "", "Value error, Stage IDs must be unique")} ELSE {})
    \cup (IF HasDuplicateIds(data.enemies)
          THEN {ErrorEntry("enemies", 0, "", "Value error, Enemy IDs must be unique")} ELSE {})
    \cup (IF HasDuplicateIds(data.bullet_patterns.items)
          THEN {ErrorEntry("bullet_patterns", 0, "",
                           "Value error, Bullet pattern IDs must be unique")} ELSE {})

\* C18: uniqueness invariant.  For a document (bullet_patterns omitted or a
\* list) in which two stages, two enemies or two bullet patterns share an id,
\* validate_game_data fails and its message has the uniqueness entry of that
\* collection, whatever else the document violates; for a collection whose
\* ids are distinct no uniqueness entry is reported.
C18_UniquenessInvariant ==
    (v_pc = "done" /\ v_doc.bullet_patterns.form # "null")
        => \A field \in CollectionFields :
              IF HasDuplicateIds(CollectionItems(v_doc, field))
              THEN ValidationFailedWithMessage /\ ReportsUniqueness(field)
              ELSE ~ReportsUniqueness(field)

\* C19: validation reports every violation.  For a document (bullet_patterns
\* omitted or a list) that violates at least one constraint, validate_game_data
\* fails and its message has one entry for each violated constraint.
C19_EveryViolationReported ==
    (v_pc = "done" /\ v_doc.bullet_patterns.form # "null"
        /\ ViolatedConstraints(v_doc) # {})
        => (ValidationFailedWithMessage /\ ViolatedConstraints(v_doc) \subseteq ReportedEntries)

\* C20: bullet_patterns is optional.  A document that satisfies every other
\* constraint and omits bullet_patterns or sets it to null is accepted
\* (is_valid = True), and a uniqueness entry for bullet patterns is reported
\* only when the list is present.
C20_BulletPatternsOptional ==
    v_pc = "done" =>
        /\ (/\ v_doc.bullet_patterns.form \in {"absent", "null"}
            /\ ViolatedConstraints(v_doc) = {})
              => (v_result.status = "returned" /\ v_result.is_valid)
        /\ ReportsUniqueness("bullet_patterns") => v_doc.bullet_patterns.form = "list"

\* ------------------------------------------------------------------------
\* Observations on /generate-game
\* ------------------------------------------------------------------------
Responded == r_pc = "idle" /\ r_response.status_code # 0
BodyMissing(req) == req.body \in {"empty", "not_json", "null"}
PromptMissing(req) == req.user_prompt = AbsentPrompt
PromptTooShort(req) == ~PromptMissing(req) /\ req.user_prompt.len < MinPromptLen
DifficultyUnknown(req) == req.difficulty \notin (AllowedDifficulties \cup {"absent"})
InputError(req) ==
    BodyMissing(req) \/ PromptMissing(req) \/ PromptTooShort(req) \/ DifficultyUnknown(req)

\* C15: input errors are rejected before any provider call.  A request whose
\* body or user_prompt is missing, whose trimmed user_prompt has fewer than
\* 10 characters, or whose difficulty is not easy, normal or hard is answered
\* with HTTP 400 and generate_game_json (the only place that calls the model
\* or touches the text cache) has not been called for it.
C15_InputErrorsRejected ==
    (Responded /\ InputError(r_req)) => (r_response.status_code = 400 /\ r_calls = 0)

\* C16: validation failure is terminal and distinct.  When the generated
\* document violates the schema, generate_game_json was called exactly once
\* for the request, and the response is not the upstream-failure response
\* and carries the validation message and the raw rejected document.
C16_ValidationFailureTerminal ==
    (Responded /\ r_calls = 1 /\ t_result.status = "returned" /\ t_result.success
        /\ ViolatedConstraints(r_doc) # {})
        => (/\ r_calls = 1
            /\ r_response.error # "Failed to generate game"
            /\ r_response.status_code # 200
            /\ r_response.error = "Generated game data failed validation"
            /\ ViolatedConstraints(r_doc) \cap
                  {r_response.details[i] : i \in DOMAIN r_response.details} # {}
            /\ r_response.raw_data = r_doc)

\* C17: no placeholder results.  A call that returns success=True returns a
\* non-empty document that it read from the cache or parsed from a provider
\* response in that call, with error None; a call that returns success=False
\* returns None as data.
C17_NoPlaceholderResults ==
    (TextCallFinished /\ t_result.status = "returned")
        => IF t_result.success
           THEN /\ Truthy(t_result.game_data)
                /\ t_result.error = NoError
                /\ \/ ServedFromCache
                   \/ /\ NumCompletionCalls > 0
                      /\ CompletionCalls[NumCompletionCalls].ok
                      /\ CompletionCalls[NumCompletionCalls].doc = t_result.game_data
           ELSE t_result.game_data = JsonNull

\* ------------------------------------------------------------------------
\* Observations on the schema and its serialization
\* ------------------------------------------------------------------------
HasEntry(field, index, sub) ==
    \E e \in ReportedEntries : e.field = field /\ e.index = index /\ e.sub = sub

\* The constrained number of every item of a collection: out of its range
\* exactly when the message has an entry with the item's path.
RangeEnforced(field, items, sub, range) ==
    \A i \in DOMAIN items :
        IF InRange(items[i].num, range)
        THEN ~HasEntry(field, i, sub)
        ELSE ValidationFailedWithMessage /\ HasEntry(field, i, sub)

\* C21: round trip.  For every valid GameData value g, validating the
\* serialized g succeeds and yields a value equal to g in every field,
\* game_id included.
C21_RoundTrip ==
    fn_pc = "done" =>
        (fn_out.status = "returned" /\ fn_out.is_valid /\ fn_out.value = fn_in)

\* C22: the reference document SAMPLE_GAME_DATA satisfies the schema:
\* validate_game_data returns is_valid = True with the GameData value.
C22_SampleIsValid ==
    (v_pc = "done" /\ v_doc = SAMPLE_GAME_DATA)
        => (v_result.status = "returned" /\ v_result.is_valid
            /\ v_result.game_data = SAMPLE_GAME_DATA)

\* C23: field constraints are enforced with the field named.  A number
\* outside its range (length_sec, hp, cooldown_ms) or an ansi_fg that is not
\* '#' and six hex digits makes validate_game_data fail with a message
\* that has the field's path; a value inside its range or matching the
\* pattern has no entry.
C23_ConstraintsNamed ==
    v_pc = "done" =>
        /\ RangeEnforced("stages", v_doc.stages, "length_sec", LengthSecRange)
        /\ RangeEnforced("enemies", v_doc.enemies, "hp", HpRange)
        /\ RangeEnforced("bullet_patterns", v_doc.bullet_patterns.items, "cooldown_ms",
                         CooldownMsRange)
        /\ v_doc.story.form = "object" =>
              IF matches_hex_pattern(v_doc.story.ansi_fg)
              THEN ~HasEntry("story", 0, "ansi_fg")
              ELSE ValidationFailedWithMessage /\ HasEntry("story", 0, "ansi_fg")

\* ------------------------------------------------------------------------
\* Observations on validate_partial_game_data
\* ------------------------------------------------------------------------
\* The fragment satisfies the sub-shape: every required key present, no
\* value violating its constraint.
SatisfiesShape(data, field) ==
    Range(RequiredFields(field)) \subseteq data.present /\ data.invalid = {}
MissingRequired(data, field) == Range(RequiredFields(field)) \ data.present
PartialEntries == {fn_out.error_msg.entries[i] : i \in DOMAIN fn_out.error_msg.entries}

AllWaves(g) == UNION {{<<i, j>> : j \in DOMAIN g.stages[i].waves} : i \in DOMAIN g.stages}
AllPhases(g) ==
    UNION {{<<i, j>> : j \in DOMAIN g.stages[i].boss.phases} : i \in DOMAIN g.stages}

\* C25: summary consistency.  For every validated GameData g, the summary's
\* total_waves is the number of waves of all stages, total_boss_phases the
\* number of boss phases of all stages, each *_count the length of its
\* collection, and pattern_count is 0 when bullet_patterns is absent.
C25_SummaryConsistency ==
    fn_pc = "done" =>
        /\ fn_out.total_waves = Cardinality(AllWaves(fn_in))
        /\ fn_out.total_boss_phases = Cardinality(AllPhases(fn_in))
        /\ fn_out.stage_count = Cardinality(DOMAIN fn_in.stages)
        /\ fn_out.enemy_count = Cardinality(DOMAIN fn_in.enemies)
        /\ fn_out.weapon_count = Cardinality(DOMAIN fn_in.weapons)
        /\ fn_out.pickup_count = Cardinality(DOMAIN fn_in.pickups)
        /\ fn_out.pattern_count = Cardinality(DOMAIN fn_in.bullet_patterns.items)
        /\ fn_in.bullet_patterns.form = "absent" => fn_out.pattern_count = 0

\* C25 witness: a value with two stages of different wave counts and no
\* bullet patterns was summarized.
C25_Witness ==
    /\ fn_pc = "done"
    /\ Len(fn_in.stages) = 2
    /\ Len(fn_in.stages[1].waves) # Len(fn_in.stages[2].waves)
    /\ fn_in.bullet_patterns.form = "absent"
    /\ fn_out.total_waves = 3
    /\ fn_out.pattern_count = 0

\* ------------------------------------------------------------------------
\* Observations on remove_solid_background
\* ------------------------------------------------------------------------
RemovalDone == fn_pc = "done"
InternalFailure ==
    \/ ~fn_in.base64_image.decodable
    \/ fn_in.base64_image.prefix = "data:"
    \/ fn_out.fault = "error"
Processed == RemovalDone /\ ~InternalFailure /\ fn_out.status = "returned"
InRaster == fn_in.base64_image.data
OutRaster == fn_out.image.data
Cells(data) == {<<i, j>> : i \in DOMAIN data, j \in DOMAIN data[1]}
BorderCells(data) ==
    {c \in Cells(data) : c[1] \in {1, Len(data)} \/ c[2] \in {1, Len(data[1])}}
DistanceSq(p, bg) ==
    (p.r - bg.r) * (p.r - bg.r) + (p.g - bg.g) * (p.g - bg.g) + (p.b - bg.b) * (p.b - bg.b)
Matches(p, bg, tolerance) == DistanceSq(p, bg) <= tolerance * tolerance
InFeatherBand(p, bg, tolerance) ==
    /\ DistanceSq(p, bg) > tolerance * tolerance
    /\ DistanceSq(p, bg) <= (tolerance + 10) * (tolerance + 10)

\* C26: remove_solid_background never raises.  For every input string and
\* tolerance the call returns; on an internal failure (a payload that does
\* not decode, a processing error) it returns exactly its input, otherwise
\* a PNG data URI of a raster of the input's dimensions.
C26_NeverRaises ==
    RemovalDone =>
        /\ fn_out.status = "returned"
        /\ IF InternalFailure
           THEN fn_out.image = fn_in.base64_image
           ELSE /\ fn_out.image.prefix = PngPrefix
                /\ fn_out.image.decodable
                /\ Cells(OutRaster) = Cells(InRaster)

\* C26 witness: a payload that is no image came back unchanged.
C26_Witness ==
    /\ RemovalDone
    /\ ~fn_in.base64_image.decodable
    /\ fn_in.base64_image.prefix = PngPrefix
    /\ fn_out.status = "returned"
    /\ fn_out.image = fn_in.base64_image

\* The raster is solid chroma-key green except for its centre, which is not
\* green (not G > 150 with G above R and B).
NonGreen(p) == ~(p.g > 150 /\ p.g > p.r /\ p.g > p.b)
GreenExceptCentre(data) ==
    /\ Len(data) = 3 /\ Len(data[1]) = 3
    /\ \A c \in BorderCells(data) :
          Rgb(data[c[1]][c[2]].r, data[c[1]][c[2]].g, data[c[1]][c[2]].b) = ChromaGreen
    /\ NonGreen(data[2][2])

\* C27: segmentation.  Every pixel whose Euclidean RGB distance to the
\* estimated background colour is <= tolerance gets alpha 0; for a raster
\* that is solid chroma-key green except for a centred non-green square
\* (tolerance 0, the default 35 or the sprite wrappers' 80), the green
\* region gets alpha 0 and the square keeps its alpha.
C27_Segmentation ==
    Processed =>
        /\ \A c \in Cells(InRaster) :
              Matches(InRaster[c[1]][c[2]], fn_out.bg_color, fn_in.tolerance)
                  => OutRaster[c[1]][c[2]].a = 0
        /\ GreenExceptCentre(InRaster)
              => /\ \A c \in BorderCells(InRaster) : OutRaster[c[1]][c[2]].a = 0
                 /\ OutRaster[2][2].a = InRaster[2][2].a

\* C27 witness: the green border of an opaque raster with a red centre was
\* removed with the sprite wrappers' tolerance, the centre is still opaque.
C27_Witness ==
    /\ Processed
    /\ fn_in.tolerance = SpriteTolerance
    /\ GreenExceptCentre(InRaster)
    /\ InRaster[1][1].a = 255 /\ OutRaster[1][1].a = 0
    /\ InRaster[2][2] = Pixel(200, 30, 30, 255)
    /\ OutRaster[2][2].a = 255

\* (d - tolerance) / 10 * 255 truncated to an integer, for a pixel in the
\* feather band
IsTruncatedFeather(a, p, bg, tolerance) ==
    /\ a \in 0..255
    /\ (2 * a + 51 * tolerance) * (2 * a + 51 * tolerance) <= 2601 * DistanceSq(p, bg)
    /\ a < 255 => (2 * a + 2 + 51 * tolerance) * (2 * a + 2 + 51 * tolerance)
                      > 2601 * DistanceSq(p, bg)
FeatherRule(c) ==
    InFeatherBand(InRaster[c[1]][c[2]], fn_out.bg_color, fn_in.tolerance)
        => \E a \in 0..255 :
              /\ IsTruncatedFeather(a, InRaster[c[1]][c[2]], fn_out.bg_color, fn_in.tolerance)
              /\ OutRaster[c[1]][c[2]].a =
                    IF a < InRaster[c[1]][c[2]].a THEN a ELSE InRaster[c[1]][c[2]].a
NeverMoreOpaque == \A c \in Cells(InRaster) : OutRaster[c[1]][c[2]].a <= InRaster[c[1]][c[2]].a

\* C28: feathering.  Every pixel with distance d in (tolerance,
\* tolerance+10] gets alpha min(old alpha, (d - tolerance)/10*255
\* truncated); a previously opaque pixel in the band gets an alpha
\* strictly between 0 and 255; no pixel is made more opaque.
C28_Feathering ==
    Processed =>
        /\ \A c \in Cells(InRaster) : FeatherRule(c)
        /\ \A c \in Cells(InRaster) :
              (/\ InFeatherBand(InRaster[c[1]][c[2]], fn_out.bg_color, fn_in.tolerance)
               /\ InRaster[c[1]][c[2]].a = 255)
                  => (0 < OutRaster[c[1]][c[2]].a /\ OutRaster[c[1]][c[2]].a < 255)
        /\ NeverMoreOpaque

\* The part of the band where (d - tolerance)/10*255 lies in [1, 255):
\* 10/255 <= d - tolerance < 10
InStrictBand(p, bg, tolerance) ==
    /\ (2 + 51 * tolerance) * (2 + 51 * tolerance) <= 2601 * DistanceSq(p, bg)
    /\ DistanceSq(p, bg) < (tolerance + 10) * (tolerance + 10)

\* C28 amended: every pixel with distance d in (tolerance, tolerance+10]
\* gets alpha min(old alpha, (d - tolerance)/10*255 truncated); a
\* previously opaque pixel gets an alpha strictly between 0 and 255 when
\* 10/255 <= d - tolerance < 10 (at d = tolerance+10 it stays 255, for
\* d - tolerance < 10/255 it becomes 0); no pixel is made more opaque.
C28_FeatheringAmended ==
    Processed =>
        /\ \A c \in Cells(InRaster) : FeatherRule(c)
        /\ \A c \in Cells(InRaster) :
              (/\ InFeatherBand(InRaster[c[1]][c[2]], fn_out.bg_color, fn_in.tolerance)
               /\ InRaster[c[1]][c[2]].a = 255)
                  => /\ InStrictBand(InRaster[c[1]][c[2]], fn_out.bg_color, fn_in.tolerance)
                        <=> (0 < OutRaster[c[1]][c[2]].a /\ OutRaster[c[1]][c[2]].a < 255)
                     /\ DistanceSq(InRaster[c[1]][c[2]], fn_out.bg_color)
                           = (fn_in.tolerance + 10) * (fn_in.tolerance + 10)
                        => OutRaster[c[1]][c[2]].a = 255
        /\ NeverMoreOpaque

\* C28 witness: with green estimated and the default tolerance, the opaque
\* centre pixel at distance 40 got alpha 127.
C28_Witness ==
    /\ Processed
    /\ fn_in.tolerance = DefaultTolerance
    /\ fn_out.bg_color = ChromaGreen
    /\ InRaster[2][2] = Pixel(40, 255, 0, 255)
    /\ InFeatherBand(InRaster[2][2], fn_out.bg_color, fn_in.tolerance)
    /\ OutRaster[2][2].a = 127

\* The border samples as the claim lists them, with the number of times
\* each cell is sampled (a corner lies on a row and on a column).
TimesSampled(data, c) ==
    (IF c[1] = 1 THEN 1 ELSE 0) + (IF c[1] = Len(data) THEN 1 ELSE 0)
    + (IF c[2] = 1 THEN 1 ELSE 0) + (IF c[2] = Len(data[1]) THEN 1 ELSE 0)
RECURSIVE Weight(_, _)
Weight(data, cells) ==
    IF cells = {} THEN 0
    ELSE LET c == CHOOSE x \in cells : TRUE
         IN  TimesSampled(data, c) + Weight(data, cells \ {c})
GreenishCells(data) ==
    {c \in BorderCells(data) : ~NonGreen(data[c[1]][c[2]])}
Channel(p, ch) == IF ch = "r" THEN p.r ELSE IF ch = "g" THEN p.g ELSE p.b

\* The k-th smallest value of a channel over the sampled cells
KthSmallest(data, cells, ch, k) ==
    CHOOSE v \in {Channel(data[c[1]][c[2]], ch) : c \in cells} :
        /\ Weight(data, {c \in cells : Channel(data[c[1]][c[2]], ch) < v}) < k
        /\ Weight(data, {c \in cells : Channel(data[c[1]][c[2]], ch) <= v}) >= k
\* The median of a channel, as an integer (the mean of the two middle
\* values without its fraction)
MedianOf(data, cells, ch) ==
    LET n == Weight(data, cells)
    IN  IF n % 2 = 1 THEN KthSmallest(data, cells, ch, (n + 1) \div 2)
        ELSE (KthSmallest(data, cells, ch, n \div 2)
              + KthSmallest(data, cells, ch, n \div 2 + 1)) \div 2
MedianColor(data, cells) ==
    Rgb(MedianOf(data, cells, "r"), MedianOf(data, cells, "g"), MedianOf(data, cells, "b"))

\* C29: background colour estimation.  The samples are the pixels of the
\* top row, bottom row, left column and right column; with at least one
\* greenish sample the estimate is the per-channel median (as an integer)
\* of the greenish samples only, otherwise of all border samples.
C29_BackgroundEstimate ==
    Processed =>
        fn_out.bg_color =
            IF GreenishCells(InRaster) # {}
            THEN MedianColor(InRaster, GreenishCells(InRaster))
            ELSE MedianColor(InRaster, BorderCells(InRaster))

\* C29 witness: a border with greenish and other samples, where the median
\* of the greenish samples differs from the median of all samples.
C29_Witness ==
    /\ Processed
    /\ GreenishCells(InRaster) # {}
    /\ GreenishCells(InRaster) # BorderCells(InRaster)
    /\ fn_out.bg_color = MedianColor(InRaster, GreenishCells(InRaster))
    /\ fn_out.bg_color # MedianColor(InRaster, BorderCells(InRaster))

\* ------------------------------------------------------------------------
\* Observations on /patch-story
\* ------------------------------------------------------------------------
BridgeAnswered == b_pc = "idle" /\ b_response.status_code # 0
BothStagesPresent(req) ==
    /\ req.body = "object"
    /\ ~is_empty_stage(req.previous_stage)
    /\ ~is_empty_stage(req.next_stage)
BridgeCalls == SelectSeq(b_trace, LAMBDA e : e.op = "completion")
BridgeCacheOps == SelectSeq(b_trace, LAMBDA e : e.op # "completion")
ProviderFailed(e) == e.outcome \in {"exception", "none_content"}

RandomStageAnswered == g_query'.asked /\ <<g_query, g_stage>>' # <<g_query, g_stage>>

\* Rows that satisfy exclusion of player p and, for a given d, difficulty d
Satisfying(rows, p, d, given) ==
    {row \in rows : /\ (p \in given => row.creator_player_id # p)
                    /\ (d \in given => row.difficulty = d)}

RandomStageRespects(p, d, given) ==
    /\ g_stage'.found =>
          /\ g_stage'.creator_player_id # p
          /\ (d \in given => g_stage'.difficulty = d)
          /\ \E row \in completed_stages : FoundStage(row) = g_stage'
    /\ ~g_stage'.found <=> Satisfying(completed_stages, p, d, given) = {}

\* C31 as stated: get_random_stage(exclude_player_id=p, difficulty=d) never
\* returns a stage created by p nor, for any d other than None, a stage whose
\* difficulty differs from d, and returns None exactly when no stored stage
\* passes these filters.
C31_RandomStageFilters ==
    [][RandomStageAnswered =>
         RandomStageRespects(g_query'.exclude_player_id, g_query'.difficulty,
                             (ExcludeArgs \cup DifficultyArgs) \ {PyNone})]_vars

\* C31 amended: the filters are those of non-empty arguments; an argument that
\* is None or the empty string filters nothing. The returned stage is a stored
\* one, is not by a non-empty p, has the non-empty difficulty d, and None is
\* returned exactly when no stored stage passes the filters that apply.
C31_RandomStageFiltersNonEmpty ==
    [][RandomStageAnswered =>
         RandomStageRespects(g_query'.exclude_player_id, g_query'.difficulty,
                             (ExcludeArgs \cup DifficultyArgs) \ {PyNone, ""})]_vars

\* A stage was returned for (p1, easy) while the pool also holds a stage by p1.
C31_Witness ==
    /\ g_query.asked
    /\ g_query.exclude_player_id = "p1"
    /\ g_query.difficulty = "easy"
    /\ g_stage.found
    /\ \E row \in completed_stages : row.creator_player_id = "p1"
    /\ \E row \in completed_stages : row.difficulty = "normal"

\* No increment_stage_plays call is in flight.
NoPlayInFlight == \A r \in Requesters : p_pc[r] = "idle"

\* C32: every increment_stage_plays call on an existing stage adds exactly 1
\* to its times_played, also when the calls come from concurrent requests:
\* once all calls have returned, a stage whose row was not saved meanwhile
\* has been counted once per call.
C32_EveryPlayCounted ==
    NoPlayInFlight =>
        \A row \in completed_stages :
            ~disturbed[row.stage_id] => row.times_played = plays_done[row.stage_id]

\* ------------------------------------------------------------------------
\* use_cache = False
\* ------------------------------------------------------------------------
\* A step of a generate_game_json / generate_image call made with
\* use_cache=False, and the step on which such a call returns.
UncachedTextStep == t_pc # "idle" /\ ~t_args.use_cache
UncachedImageStep == i_pc # "idle" /\ ~i_args.use_cache
TextLookups == SelectSeq(t_trace, LAMBDA e : e.ev = "lookup")

\* No step of an uncached call reads or writes a cache tier.
UncachedLeavesTiersAlone ==
    /\ UncachedTextStep => /\ UNCHANGED llm_files
                           /\ TextLookups' = <<>>
    /\ UncachedImageStep => /\ UNCHANGED <<IMAGE_CACHE, image_files>>
                            /\ TierReads' = <<>>

\* C33 as stated: with use_cache=False, generate_image and generate_game_json
\* read no cache tier, leave the memory tier and the filesystem tier as they
\* were, and always call a provider before they return, on success and on
\* failure.
C33_UncachedBypassesCache ==
    [][/\ UncachedLeavesTiersAlone
       /\ (UncachedTextStep /\ t_pc' = "idle") => NumCompletionCalls' >= 1
       /\ (UncachedImageStep /\ i_pc' = "idle") => Len(ProviderCalls') >= 1]_vars

\* C33 amended: as stated, except that generate_game_json calls a provider
\* only when max_retries is at least 1 (with max_retries = 0 it calls none).
C33_UncachedBypassesCacheWithinBudget ==
    [][/\ UncachedLeavesTiersAlone
       /\ (UncachedTextStep /\ t_pc' = "idle" /\ t_args.max_retries >= 1)
              => NumCompletionCalls' >= 1
       /\ (UncachedTextStep /\ t_pc' = "idle" /\ t_args.max_retries = 0)
              => NumCompletionCalls' = 0
       /\ (UncachedImageStep /\ i_pc' = "idle") => Len(ProviderCalls') >= 1]_vars

\* An uncached generate_image call has returned an image while both tiers
\* hold an entry for its key, and an uncached generate_game_json call has
\* returned while the text cache holds a file for its prompt.
C33_Witness ==
    /\ ImageCallFinished /\ ~i_args.use_cache /\ i_result.success
    /\ IMAGE_CACHE[CurrentKey] # NoImage
    /\ image_files[file_path(CurrentKey, i_args.image_type)].exists
    /\ TextCallFinished /\ ~t_args.use_cache /\ t_result.success
    /\ llm_files[get_llm_cache_key(t_args.user_prompt, t_args.difficulty)] # NoFile

\* ------------------------------------------------------------------------
\* POST /save-game
\* ------------------------------------------------------------------------
\* Position of a database write in the trace of the request, 0 when absent
WriteIndex(trace, op) ==
    IF \E i \in DOMAIN trace : trace[i] = op
    THEN CHOOSE i \in DOMAIN trace : trace[i] = op
    ELSE 0

SaveRejected(response) == response.status_code \in {400, 404}

\* C34: a /save-game request answered 400 (player_id or game_id missing) or
\* 404 (campaign_id given but unknown) writes nothing: campaigns, sessions and
\* the shared pool are unchanged. An accepted request creates the session
\* before it updates the campaign, and a stage is saved to the pool only for
\* a request with completed true, a game_data document and a player_prompt.
C34_RejectedSaveChangesNothing ==
    [][/\ SaveRejected(v_response') =>
             /\ UNCHANGED <<campaigns, game_sessions, completed_stages>>
             /\ v_trace' = <<>>
       /\ v_response'.status_code = 400 =>
             \/ v_req'.body # "object"
             \/ v_req'.player_id = ""
             \/ v_req'.game_id = ""
       /\ v_response'.status_code = 404 =>
             /\ v_req'.campaign_id # NoCampaignId
             /\ get_campaign(campaigns, v_req'.campaign_id) = {}
       /\ v_response'.status_code = 200 =>
             /\ WriteIndex(v_trace', "create_session") > 0
             /\ WriteIndex(v_trace', "create_session")
                    < WriteIndex(v_trace', "update_campaign")
             /\ Len(game_sessions') = Len(game_sessions) + 1
       /\ (completed_stages' # completed_stages
               \/ WriteIndex(v_trace', "save_completed_stage") > 0) =>
             /\ v_req'.completed
             /\ v_req'.game_data.form = "dict"
             /\ v_req'.player_prompt # ""]_vars

\* A request naming an unknown campaign was answered 404 while the database
\* already held a campaign, a session and a shared stage.
C34_Witness ==
    /\ v_response.status_code = 404
    /\ campaigns # {}
    /\ Len(game_sessions) >= 1
    /\ completed_stages # {}

\* C35: every parsed document is cached before it is validated, so once a
\* document that fails validation is in the cache file of a prompt, a later
\* /generate-game request with the same trimmed user_prompt that reaches
\* the generation (the file system working) gets the same validation
\* failure and makes no provider call.
C35_InvalidDocumentStaysCached ==
    (Responded /\ r_calls = 1 /\ r_prior # NoResponse /\ FaultFree(t_trace))
        => (r_response = r_prior /\ NumCompletionCalls = 0)

\* C36: when two generate_image calls for the same uncached key run
\* concurrently and both generate an image (PNG payloads, every file
\* operation succeeding), then after both have completed the memory tier
\* and the filesystem tier hold the same payload for the key, and a later
\* call returns that payload.
BothGenerated ==
    \A c \in Callers : /\ c_result[c].success
                        /\ c_image[c] # NoImage /\ c_image[c].mime = "image/png"
                        /\ FaultFree(c_calls[c])
C36_TiersAgreeAfterConcurrentCalls ==
    (ConcDone /\ BothGenerated)
        => /\ load_image_from_cache(image_files, ConcKey, ConcArgs.image_type, "ok")
                = IMAGE_CACHE[ConcKey]
           /\ (i_result.status = "returned" /\ FaultFree(i_trace))
                  => i_result.image = IMAGE_CACHE[ConcKey]

\* C37: validate_game_data is total.  For every document, bullet_patterns
\* null included, it returns (True, GameData, None) or (False, None,
\* message) and never raises.
C37_ValidationIsTotal ==
    v_pc = "done" =>
        /\ v_result.status = "returned"
        /\ v_result.is_valid => (v_result.game_data = v_doc /\ v_result.error_msg = <<>>)
        /\ ~v_result.is_valid
              => (v_result.game_data = EmptyDocument /\ v_result.error_msg # <<>>)

\* C38: remove_solid_background is idempotent on the raster.  A call that
\* processed the image changed no pixel's RGB channels and increased no
\* pixel's alpha, and applying it again to its result with the same
\* tolerance estimates the same background colour and returns the same
\* raster.
RemovalProcessed ==
    /\ fn_pc = "done" /\ fn_out.status = "returned"
    /\ ~try_raises(fn_in.base64_image, fn_out.fault)
SameRgbLowerAlpha(before, after) ==
    /\ DOMAIN after = DOMAIN before
    /\ \A i \in DOMAIN before :
          /\ DOMAIN after[i] = DOMAIN before[i]
          /\ \A j \in DOMAIN before[i] :
                /\ Rgb(after[i][j].r, after[i][j].g, after[i][j].b)
                      = Rgb(before[i][j].r, before[i][j].g, before[i][j].b)
                /\ after[i][j].a <= before[i][j].a
AppliedAgain == remove_solid_background_raster(fn_out.image, fn_in.tolerance, "none")
C38_RemovalIdempotent ==
    RemovalProcessed =>
        /\ SameRgbLowerAlpha(fn_in.base64_image.data, fn_out.image.data)
        /\ AppliedAgain.image = fn_out.image
        /\ AppliedAgain.bg_color = fn_out.bg_color

\* A processed image in which one pixel was made transparent and another was
\* feathered to a partial alpha
C38_Witness ==
    /\ RemovalProcessed
    /\ \E i \in DOMAIN fn_out.image.data : \E j \in DOMAIN fn_out.image.data[i] :
          /\ fn_out.image.data[i][j].a = 0
          /\ fn_in.base64_image.data[i][j].a > 0
    /\ \E i \in DOMAIN fn_out.image.data : \E j \in DOMAIN fn_out.image.data[i] :
          /\ fn_out.image.data[i][j].a > 0
          /\ fn_out.image.data[i][j].a < fn_in.base64_image.data[i][j].a

\* C39: save_completed_stage is an upsert keyed by the document's game_id.
\* After every save the pool holds one row per stage_id; the saved stage's
\* row carries the creator, prompt, difficulty and document of this save,
\* the other rows are as they were, and a save under an existing stage_id
\* adds no row.
RowsOf(rows, stage_id) == {row \in rows : row.stage_id = stage_id}
OneRowPerStageId(rows) == \A stage_id \in StageIds : Cardinality(RowsOf(rows, stage_id)) <= 1
SavedAsUpsert(a, rows, rows_after, stage_id) ==
    /\ OneRowPerStageId(rows_after)
    /\ \E row \in rows_after :
          /\ row.stage_id = stage_id
          /\ row.creator_player_id = a.creator_player_id
          /\ row.player_prompt = a.player_prompt
          /\ row.difficulty = a.difficulty
          /\ json_loads(row.game_data) = a.game_data
    /\ rows_after \ RowsOf(rows_after, stage_id) = rows \ RowsOf(rows, stage_id)
    /\ Cardinality(rows_after)
          = Cardinality(rows) + (IF RowsOf(rows, stage_id) = {} THEN 1 ELSE 0)
====
